---- MODULE Spec2Model ----
(***************************************************************************)
(* Waiting-Room-Manager: batched move/admit engine (operations/           *)
(* waitingRoom.ts, utils retryWithBackoff / processBatch), round state    *)
(* store with localStorage persistence (state/store) and the ControlPanel *)
(* start / end round handlers.                                            *)
(***************************************************************************)
EXTENDS Integers, Sequences, FiniteSets, TLC

(* ---------------------------------------------------------------------- *)
(* Program constants                                                      *)
(* ---------------------------------------------------------------------- *)
CONCURRENCY_LIMIT == 5
MAX_RETRIES == 3
BASE_DELAY == 300

(* ---------------------------------------------------------------------- *)
(* Bounds of the model                                                    *)
(* ---------------------------------------------------------------------- *)
\* participants known to the meeting in the small batch specification
NumParticipants == 3
\* length of the work list in the chunking specification (> CONCURRENCY_LIMIT)
ChunkItems == 6
\* participants the environment puts into the waiting room during a batch
MaxLateEntrants == 2
\* size of the waiting room before the batch in the race specification
MaxWaiting == 2
\* values of Date.now()
MaxTime == 2
\* data rows of a row-based CSV
MaxRowBasedRows == 3
\* data rows of a column-based CSV
MaxColumnRows == 2

Ids == 1..NumParticipants

Min(a, b) == IF a < b THEN a ELSE b

VARIABLES
    \* --- batch engine (waitingRoom.ts + processBatch + retryWithBackoff)
    bpc,              \* "idle" | "fetch" | "run" | "done"
    kind,             \* "none" | "move" | "admit"
    items,            \* the work list of the batch (participant ids)
    chunkAt,          \* processBatch loop variable i (0-based start of chunk)
    op,               \* per item: state of its processor promise
    results,          \* processBatch results array
    completed,        \* processBatch completed counter
    progress,         \* calls made to onProgress: <<completed, total>>
    waitingRoomUUIDs, \* the snapshot taken by admitParticipantsFromWaitingRoom
    fetches,          \* number of getWaitingRoomParticipants calls of the batch
    waitingRoomResult, \* what getWaitingRoomParticipants resolved with
    waitingRoom,      \* the provider's actual waiting room (environment)
    lateEntrants      \* ids that entered the waiting room after the snapshot

batchVars == <<bpc, kind, items, chunkAt, op, results, completed, progress,
               waitingRoomUUIDs, fetches, waitingRoomResult,
                   waitingRoom, lateEntrants>>

VARIABLES
    \* --- store (state/store): the persisted part of AppState
    sessionId,        \* AppState.sessionId
    parsedRounds,     \* Map roundId -> Set of conflict emails
    emailToName,      \* Map email -> registered name
    activeRounds,     \* Map roundId -> RoundState
    selectedRoundId,  \* RoundId | null
    storage,          \* localStorage[STORAGE_KEY]: <<>> or <<document>>
    emailOverrides,   \* Map participantUUID -> manually assigned email
    \* --- observation
    lastCmd,          \* the last store command and its round
    reloaded,         \* the page was reloaded at least once
    loaded            \* result of the last explicit loadPersistedState()

storeVars == <<sessionId, parsedRounds, emailToName, activeRounds, selectedRoundId, storage,
              emailOverrides>>
obsVars == <<lastCmd, reloaded, loaded>>

VARIABLES
    \* --- control panel (ControlPanel.tsx + breakoutRoom.ts)
    ppc,                 \* position of the panel's handlers
    cachedParticipants,  \* AppState.cachedParticipants: <<>> (null) or <<list>>
    noEmail,             \* matchResult?.noEmail as participant ids
    participantsToMove,  \* useState participantsToMove as participant ids
    bo,                  \* the running sendParticipantsToBreakoutRooms call
    succeeded            \* history: <<round, id>> of every success=true result

panelVars == <<ppc, cachedParticipants, noEmail, participantsToMove, bo, succeeded>>

VARIABLES
    \* --- observation of calls
    trace,            \* collaborator calls and returns of the breakout orchestration
    waitElapsed,      \* Date.now() - start inside waitForBreakoutRoomsToClose
    returned,         \* value returned by the last getMovedParticipants call
    overrideLog       \* history: overrides set and not removed since

auxVars == <<trace, waitElapsed, returned, overrideLog>>

VARIABLES
    \* --- calls of the pure functions (matcher, CSV parser)
    matchArgs,        \* arguments of the last matchParticipants call, <<>> before it
    matchResult,      \* MatchResult of that call
    csv,              \* results of Papa.parse handed to the complete callback
    parseResult       \* CSVParseResult resolved by parseCSV, <<>> before it

fnVars == <<matchArgs, matchResult, csv, parseResult>>

VARIABLES
    \* --- asynchronous handlers outside the control panel
    restore,          \* the running handleRestoreAssociations / handleLoadFromServer
    \* --- email collection of the Zoom SDK wrapper
    statusByUUID,     \* participants heard from by onParticipantEmail (keys of the map)
    emailByUUID,      \* participantUUID -> email received
    collect,          \* the running getParticipantEmails call
    emailsResult      \* what getParticipantEmails resolved with, <<>> before it

emailVars == <<statusByUUID, emailByUUID, collect, emailsResult>>

VARIABLES
    \* --- the meeting's breakout rooms, as the Zoom client holds them
    rooms             \* participants assigned to the created room; whether rooms are open

meetingVars == <<rooms>>

asyncVars == <<restore, emailVars, meetingVars>>

vars == <<batchVars, storeVars, obsVars, panelVars, auxVars, fnVars, asyncVars>>

(* ---------------------------------------------------------------------- *)
(* Batch engine                                                           *)
(* ---------------------------------------------------------------------- *)
NoResult == [participantUUID |-> 0, success |-> FALSE, error |-> "none", retryCount |-> 0]

\* an item whose processor has not been called yet
Pending == [st |-> "pending", attempt |-> 0, calls |-> 0, fails |-> 0, slept |-> <<>>,
            res |-> NoResult]

\* (variant with a delay growing by the base delay)
backoffDelayLinear(attempt) == BASE_DELAY * (attempt + 1)

\* retryWithBackoff: baseDelay * Math.pow(3, attempt)
backoffDelay(attempt) == BASE_DELAY * 3^attempt

\* result object returned by processParticipant on success: the local
\* variable retryCount is initialised to 0 and never assigned again
SuccessResult(p, attempt) ==
    [participantUUID |-> p, success |-> TRUE, error |-> "none", retryCount |-> 0]

\* result object returned from the catch block of processParticipant
FailureResult(p) ==
    [participantUUID |-> p, success |-> FALSE, error |-> "collaborator", retryCount |-> MAX_RETRIES]

\* early return of the admit processor for a target missing in the snapshot
NotInWaitingRoomResult(p) ==
    [participantUUID |-> p, success |-> FALSE, error |-> "not in waiting room", retryCount |-> 0]

\* waitingRoomUUIDs.has(participantUUID)
InSnapshotAlways(snap, p) == TRUE
InSnapshot(snap, p) == p \in snap

\* items.slice(i, i + concurrency): 1-based index range of the chunk at i
ChunkEndUnbounded(i, n) == n
ChunkEnd(i, n) == Min(i + CONCURRENCY_LIMIT, n)
ChunkOf(i, n) == (i + 1)..ChunkEnd(i, n)

\* (variant that consults the live waiting room instead of the snapshot)
IssueLive(k, list, snap, i, o) ==
    IF k = "admit" /\ list[i] \notin waitingRoom
    THEN [o EXCEPT !.st = "done", !.res = NotInWaitingRoomResult(list[i])]
    ELSE [o EXCEPT !.st = "calling", !.attempt = 0, !.calls = 1]

\* chunk.map(processor): every processor of the chunk runs synchronously up
\* to its first await; the admit processor returns at once for an absent id
Issue(k, list, snap, i, o) ==
    IF k = "admit" /\ ~InSnapshot(snap, list[i])
    THEN [o EXCEPT !.st = "done", !.res = NotInWaitingRoomResult(list[i])]
    ELSE [o EXCEPT !.st = "calling", !.attempt = 0, !.calls = 1]

\* processBatch called on a fresh list: first loop iteration
StartProcessBatch(k, list, snap) ==
    /\ items' = list
    /\ kind' = k
    /\ chunkAt' = 0
    /\ results' = <<>>
    /\ completed' = 0
    /\ progress' = <<>>
    /\ op' = [i \in 1..Len(list) |->
                IF i \in ChunkOf(0, Len(list))
                THEN Issue(k, list, snap, i, Pending) ELSE Pending]
    /\ bpc' = IF Len(list) = 0 THEN "done" ELSE "run"

\* moveParticipantsToWaitingRoom(participants)
MoveParticipantsToWaitingRoom(list) ==
    /\ bpc = "idle"
    /\ StartProcessBatch("move", list, {})
    /\ UNCHANGED <<waitingRoomUUIDs, fetches, waitingRoomResult,
                   waitingRoom, lateEntrants>>

\* admitParticipantsFromWaitingRoom(participantUUIDs): up to the await of
\* getWaitingRoomParticipants()
AdmitParticipantsFromWaitingRoom(list) ==
    /\ bpc = "idle"
    /\ bpc' = "fetch"
    /\ kind' = "admit"
    /\ items' = list
    /\ fetches' = fetches + 1
    /\ UNCHANGED <<chunkAt, op, results, completed, progress, waitingRoomUUIDs,
                   waitingRoomResult, waitingRoom, lateEntrants>>

\* getWaitingRoomParticipants(): the participants of the waiting room, or
\* the caught error without a participants field
getWaitingRoomParticipants(ok, room) ==
    IF ok THEN [success |-> TRUE, participants |-> <<room>>, error |-> "none"]
    ELSE [success |-> FALSE, participants |-> <<>>,
          error |-> "Failed to get waiting room participants"]

\* (variant that takes every target as present when the fetch failed)
snapshotOfOptimistic(result, list) ==
    IF result.participants = <<>> THEN {list[i] : i \in DOMAIN list}
    ELSE result.participants[1]

\* new Set(waitingRoomResult.participants?.map(p => p.participantUUID) || [])
snapshotOf(result, list) ==
    IF result.participants = <<>> THEN {} ELSE result.participants[1]

\* getWaitingRoomParticipants() resolves in admitParticipantsFromWaitingRoom
SnapshotReturns(ok) ==
    /\ bpc = "fetch"
    /\ LET result == getWaitingRoomParticipants(ok, waitingRoom)
           snap == snapshotOf(result, items)
       IN /\ waitingRoomResult' = result
          /\ waitingRoomUUIDs' = snap
          /\ StartProcessBatch("admit", items, snap)
    /\ UNCHANGED <<fetches, waitingRoom, lateEntrants>>

\* the collaborator call of item i resolves (moveToWaitingRoom /
\* admitFromWaitingRoom never reject, they return success or an error)
CallReturns(i, ok) ==
    /\ bpc = "run"
    /\ i \in DOMAIN op
    /\ op[i].st = "calling"
    /\ op' = [op EXCEPT ![i] =
                IF ok
                THEN [@ EXCEPT !.st = "done", !.res = SuccessResult(items[i], @.attempt)]
                ELSE IF @.attempt < MAX_RETRIES
                     THEN [@ EXCEPT !.st = "sleeping", !.fails = @ + 1,
                                    !.slept = Append(@, backoffDelay(op[i].attempt))]
                     ELSE [@ EXCEPT !.st = "done", !.fails = @ + 1,
                                    !.res = FailureResult(items[i])]]
    /\ waitingRoom' = IF ~ok THEN waitingRoom
                      ELSE IF kind = "move" THEN waitingRoom \cup {items[i]}
                      ELSE waitingRoom \ {items[i]}
    /\ UNCHANGED <<bpc, kind, items, chunkAt, results, completed, progress,
                   waitingRoomUUIDs, fetches, waitingRoomResult, lateEntrants>>

\* sleep(baseDelay * 3^attempt) of item i is over: next loop iteration
BackoffElapsed(i) ==
    /\ bpc = "run"
    /\ i \in DOMAIN op
    /\ op[i].st = "sleeping"
    /\ op' = [op EXCEPT ![i] = [@ EXCEPT !.st = "calling", !.attempt = @ + 1,
                                         !.calls = @ + 1]]
    /\ UNCHANGED <<bpc, kind, items, chunkAt, results, completed, progress,
                   waitingRoomUUIDs, fetches, waitingRoomResult,
                   waitingRoom, lateEntrants>>

\* (variant that counts one item per chunk)
completedAfterOne(c, i, n) == c + 1

\* completed += chunk.length for the chunk at i
completedAfter(c, i, n) == c + (ChunkEnd(i, n) - i)

\* (variant in which one failed processor fails the whole chunk)
chunkResultsFailFast(o, i, hi) ==
    LET failed == {j \in 1..(hi - i) : ~o[i + j].res.success}
    IN [j \in 1..(hi - i) |->
           IF failed = {} THEN o[i + j].res
           ELSE o[i + (CHOOSE k \in failed : \A l \in failed : k <= l)].res]

\* const chunkResults = await Promise.all(chunk.map(processor)): the result
\* of every processor of the chunk at i, in the order of the chunk
chunkResults(o, i, hi) == [j \in 1..(hi - i) |-> o[i + j].res]

\* Promise.all(chunk.map(processor)) resolves: push the chunk's results,
\* report progress, then issue the next chunk or return
ChunkCompletes ==
    /\ bpc = "run"
    /\ \A i \in ChunkOf(chunkAt, Len(items)) : op[i].st = "done"
    /\ LET n == Len(items)
           hi == ChunkEnd(chunkAt, n)
           next == chunkAt + CONCURRENCY_LIMIT
       IN /\ results' = results \o chunkResults(op, chunkAt, hi)
          /\ completed' = completedAfter(completed, chunkAt, n)
          /\ progress' = Append(progress, <<completedAfter(completed, chunkAt, n), n>>)
          /\ chunkAt' = next
          /\ IF next < n
             THEN /\ bpc' = "run"
                  /\ op' = [i \in 1..n |->
                              IF i \in ChunkOf(next, n)
                              THEN Issue(kind, items, waitingRoomUUIDs, i, op[i])
                              ELSE op[i]]
             ELSE /\ bpc' = "done"
                  /\ op' = op
    /\ UNCHANGED <<kind, items, waitingRoomUUIDs, fetches, waitingRoomResult,
                   waitingRoom, lateEntrants>>

\* environment: after the snapshot was taken and while the admit batch
\* runs, somebody else puts a participant into the waiting room (arrivals
\* before the snapshot are covered by the initial waiting room)
EnterWaitingRoom(p) ==
    /\ bpc = "run"
    /\ kind = "admit"
    /\ p \notin waitingRoom
    /\ Cardinality(lateEntrants) < MaxLateEntrants
    /\ waitingRoom' = waitingRoom \cup {p}
    /\ lateEntrants' = lateEntrants \cup {p}
    /\ UNCHANGED <<bpc, kind, items, chunkAt, op, results, completed, progress,
                   waitingRoomUUIDs, fetches, waitingRoomResult>>

(* ---------------------------------------------------------------------- *)
(* Store: round state with localStorage persistence                       *)
(* ---------------------------------------------------------------------- *)
RoundIds == {"r1", "r2"}
Movers == {"p1", "p2"}
Emails == {"alice@example.com", "bob@example.com"}
Names == {"Alice"}
SessionIds == {"s1", "s2"}
Times == 1..MaxTime
\* <<movedCount, admittedCount>> arguments of updateRoundStats
StatPairs == {<<0, 0>>, <<2, 1>>}

\* selectedRoundId: null
Null == "<null>"
\* RoundState.startedAt / endedAt: undefined (Date.now() is never 0)
Undefined == 0
\* no command yet
NoCmd == <<"none", Null, "unstarted">>

Range(f) == {f[i] : i \in DOMAIN f}

\* Array.from(set): the elements of the set as an array
RECURSIVE SetToSeq(_)
SetToSeq(S) ==
    IF S = {} THEN <<>>
    ELSE LET x == CHOOSE y \in S : TRUE IN <<x>> \o SetToSeq(S \ {x})

\* fresh RoundState created by startRound (no endedAt key)
NewRound(r, moved, t) ==
    [roundId |-> r, movedParticipants |-> moved, startedAt |-> t,
     endedAt |-> Undefined, movedCount |-> 0, admittedCount |-> 0]

\* (variant that rebuilds the record on every start)
startRoundFresh(ar, r, t) ==
    [x \in DOMAIN ar \cup {r} |-> IF x = r THEN NewRound(r, {}, t) ELSE ar[x]]

\* startRound: the new activeRounds map
startRound(ar, r, t) ==
    IF r \notin DOMAIN ar
    THEN [x \in DOMAIN ar \cup {r} |-> IF x = r THEN NewRound(r, {}, t) ELSE ar[x]]
    ELSE [ar EXCEPT ![r].startedAt = t, ![r].endedAt = Undefined]

\* (variant that empties the moved-set when the round ends)
endRoundClearing(ar, r, t) ==
    IF r \in DOMAIN ar
    THEN [ar EXCEPT ![r].endedAt = t, ![r].movedParticipants = {}]
    ELSE ar

\* endRound: the new activeRounds map (unchanged for an unknown round)
endRound(ar, r, t) ==
    IF r \in DOMAIN ar THEN [ar EXCEPT ![r].endedAt = t] ELSE ar

\* addMovedParticipant: the new activeRounds map
addMovedParticipant(ar, r, p, t) ==
    IF r \notin DOMAIN ar
    THEN [x \in DOMAIN ar \cup {r} |-> IF x = r THEN NewRound(r, {p}, t) ELSE ar[x]]
    ELSE [ar EXCEPT ![r].movedParticipants = @ \cup {p}]

\* updateRoundStats: the new activeRounds map (unchanged for an unknown round)
updateRoundStats(ar, r, m, a) ==
    IF r \in DOMAIN ar
    THEN [ar EXCEPT ![r].movedCount = m, ![r].admittedCount = a]
    ELSE ar

\* clearRound: activeRounds.delete(roundId)
clearRound(ar, r) == [x \in DOMAIN ar \ {r} |-> ar[x]]

\* (variant that forgets the moved-set of a round that has ended)
getMovedParticipantsActive(ar, r) ==
    IF r \in DOMAIN ar /\ ar[r].endedAt = Undefined THEN ar[r].movedParticipants ELSE {}

\* getMovedParticipants(roundId)
getMovedParticipants(ar, r) ==
    IF r \in DOMAIN ar THEN ar[r].movedParticipants ELSE {}

\* the persisted part of the in-memory state, get()
AppState ==
    [sessionId |-> sessionId, parsedRounds |-> parsedRounds, emailToName |-> emailToName,
     activeRounds |-> activeRounds, selectedRoundId |-> selectedRoundId]

\* one property of a JSON object; JSON.stringify omits undefined values
Prop(name, v) == IF v = Undefined THEN <<>> ELSE (name :> v)

\* the object saveState builds for one round and JSON.stringify writes
StoredRound(rs) ==
    [movedParticipants |-> SetToSeq(rs.movedParticipants),
     movedCount |-> rs.movedCount, admittedCount |-> rs.admittedCount]
        @@ Prop("startedAt", rs.startedAt) @@ Prop("endedAt", rs.endedAt)

\* saveState(state): the new content of localStorage[STORAGE_KEY]
\* (lastUpdated is written and never read; it is left out)
saveState(st) ==
    <<[sessionId |-> st.sessionId,
       parsedRounds |-> [r \in DOMAIN st.parsedRounds |-> SetToSeq(st.parsedRounds[r])],
       emailToName |-> st.emailToName,
       activeRounds |-> [r \in DOMAIN st.activeRounds |-> StoredRound(st.activeRounds[r])],
       selectedRoundId |-> st.selectedRoundId]>>

\* state.startedAt on a parsed object: undefined when the key is missing
Field(o, name) == IF name \in DOMAIN o THEN o[name] ELSE Undefined

\* the RoundState loadPersistedState builds from a stored round
LoadedRound(r, o) ==
    [roundId |-> r, movedParticipants |-> Range(o.movedParticipants),
     startedAt |-> Field(o, "startedAt"), endedAt |-> Field(o, "endedAt"),
     movedCount |-> o.movedCount, admittedCount |-> o.admittedCount]

\* (variant that does not copy endedAt)
loadPersistedStateNoEnd(stored) ==
    IF stored = <<>> THEN <<>>
    ELSE LET parsed == stored[1] IN
         <<[sessionId |-> parsed.sessionId,
            parsedRounds |-> [r \in DOMAIN parsed.parsedRounds |-> Range(parsed.parsedRounds[r])],
            emailToName |-> parsed.emailToName,
            activeRounds |-> [r \in DOMAIN parsed.activeRounds |->
                [LoadedRound(r, parsed.activeRounds[r]) EXCEPT !.endedAt = Undefined]],
            selectedRoundId |-> parsed.selectedRoundId]>>

\* loadPersistedState(): <<>> for null, else the rehydrated maps and sets
loadPersistedState(stored) ==
    IF stored = <<>> THEN <<>>
    ELSE LET parsed == stored[1] IN
         <<[sessionId |-> parsed.sessionId,
            parsedRounds |-> [r \in DOMAIN parsed.parsedRounds |-> Range(parsed.parsedRounds[r])],
            emailToName |-> parsed.emailToName,
            activeRounds |-> [r \in DOMAIN parsed.activeRounds |->
                                 LoadedRound(r, parsed.activeRounds[r])],
            selectedRoundId |-> parsed.selectedRoundId]>>

\* createInitialState(): persisted?.x || default; fresh is generateUUID()
createInitialState(stored, fresh) ==
    LET persisted == loadPersistedState(stored) IN
    IF persisted = <<>>
    THEN [sessionId |-> fresh, parsedRounds |-> <<>>, emailToName |-> <<>>,
          activeRounds |-> <<>>, selectedRoundId |-> Null]
    ELSE persisted[1]

\* set(partial); saveState(get())
Commit(st) ==
    /\ sessionId' = st.sessionId
    /\ parsedRounds' = st.parsedRounds
    /\ emailToName' = st.emailToName
    /\ activeRounds' = st.activeRounds
    /\ selectedRoundId' = st.selectedRoundId
    /\ storage' = saveState(st)
    /\ UNCHANGED emailOverrides

SetParsedRounds(rounds) == Commit([AppState EXCEPT !.parsedRounds = rounds])

SetEmailToName(m) == Commit([AppState EXCEPT !.emailToName = m])

SetSelectedRoundId(r) == Commit([AppState EXCEPT !.selectedRoundId = r])

StartRound(r, t) == Commit([AppState EXCEPT !.activeRounds = startRound(activeRounds, r, t)])

\* (variant that forgets saveState)
EndRoundNoSave(r, t) ==
    /\ activeRounds' = endRound(activeRounds, r, t)
    /\ UNCHANGED <<sessionId, parsedRounds, emailToName, selectedRoundId, storage, emailOverrides>>

\* endRound: set and saveState only when the round is known
EndRound(r, t) ==
    IF r \in DOMAIN activeRounds
    THEN Commit([AppState EXCEPT !.activeRounds = endRound(activeRounds, r, t)])
    ELSE UNCHANGED storeVars

AddMovedParticipant(r, p, t) ==
    Commit([AppState EXCEPT !.activeRounds = addMovedParticipant(activeRounds, r, p, t)])

\* updateRoundStats: set and saveState only when the round is known
UpdateRoundStats(r, m, a) ==
    IF r \in DOMAIN activeRounds
    THEN Commit([AppState EXCEPT !.activeRounds = updateRoundStats(activeRounds, r, m, a)])
    ELSE UNCHANGED storeVars

ClearRound(r) == Commit([AppState EXCEPT !.activeRounds = clearRound(activeRounds, r)])

\* page refresh: the store is created again by createInitialState();
\* generateUUID() yields an id different from the current one
Reload ==
    LET st == createInitialState(storage, CHOOSE x \in SessionIds : x # sessionId) IN
    /\ sessionId' = st.sessionId
    /\ parsedRounds' = st.parsedRounds
    /\ emailToName' = st.emailToName
    /\ activeRounds' = st.activeRounds
    /\ selectedRoundId' = st.selectedRoundId
    /\ emailOverrides' = <<>>
    /\ UNCHANGED storage

\* values a caller may pass
RoundMaps == {<<>>, [r \in RoundIds |-> IF r = "r1" THEN {"alice@example.com"} ELSE Emails]}
NameMaps == {<<>>, [e \in {"alice@example.com"} |-> "Alice"]}

\* the store right after construction with an empty localStorage
InitStore ==
    /\ storage = <<>>
    /\ sessionId = "s1"
    /\ parsedRounds = <<>>
    /\ emailToName = <<>>
    /\ activeRounds = <<>>
    /\ selectedRoundId = Null
    /\ emailOverrides = <<>>

InitObs ==
    /\ lastCmd = NoCmd
    /\ reloaded = FALSE
    /\ loaded = <<>>

InitAux ==
    /\ trace = <<>>
    /\ waitElapsed = 0
    /\ returned = {}
    /\ overrideLog = <<>>

\* no import of associations is running
NoRestore == [pc |-> "none", emailOverrides |-> <<>>, associations |-> <<>>]

\* no getParticipantEmails call is running
NoCollect == [pc |-> "none", uuids |-> <<>>, pending |-> {}, done |-> FALSE,
              now |-> 0, nextTick |-> 0, triggerAt |-> 0, timeoutAt |-> 0,
              lateProgress |-> FALSE]

\* the module state of the SDK wrapper when it is loaded
InitEmailCollection ==
    /\ statusByUUID = {}
    /\ emailByUUID = <<>>
    /\ collect = NoCollect
    /\ emailsResult = <<>>

\* a meeting without breakout rooms
NoRooms == [assigned |-> {}, open |-> FALSE]

InitMeeting ==
    /\ rooms = NoRooms

InitAsync ==
    /\ restore = NoRestore
    /\ InitEmailCollection
    /\ InitMeeting

\* no pure function was called
InitFn ==
    /\ matchArgs = <<>>
    /\ matchResult = <<>>
    /\ csv = <<>>
    /\ parseResult = <<>>

(* ---------------------------------------------------------------------- *)
(* Control panel: start / end of a round through breakout rooms           *)
(* ---------------------------------------------------------------------- *)
\* breakoutRoom.ts MAX_RETRIES
BREAKOUT_MAX_RETRIES == 3

\* participant.email: undefined or empty
NoEmail == ""

\* (variant that compares the email as reported)
normalizeEmailIdentity(e) == e

\* normalizeEmail: trim().toLowerCase() on the strings in use
normalizeEmail(e) ==
    CASE e = " Bob@Example.com" -> "bob@example.com"
      [] e = "ALICE@EXAMPLE.COM" -> "alice@example.com"
      [] e = "Bob@Example.com" -> "bob@example.com"
      [] e = "  " -> ""
      [] OTHER -> e

\* participant lists getParticipantsWithEmails may deliver
ParticipantLists ==
    {<<[participantUUID |-> "p1", email |-> "alice@example.com"],
       [participantUUID |-> "p2", email |-> " Bob@Example.com"]>>,
     <<[participantUUID |-> "p1", email |-> "alice@example.com"],
       [participantUUID |-> "p2", email |-> NoEmail]>>}

\* matched, foundEmails and noEmail before the for loop of matchParticipants
NoMatch == [matched |-> <<>>, foundEmails |-> {}, noEmail |-> <<>>]

\* (variant that matches an email once: a participant whose email was
\* already found is passed over)
matchStepOnce(conflictEmails, acc, participant) ==
    IF participant.email = NoEmail
    THEN [acc EXCEPT !.noEmail = Append(@, participant.participantUUID)]
    ELSE LET normalizedEmail == normalizeEmail(participant.email) IN
         IF normalizedEmail \in conflictEmails /\ normalizedEmail \notin acc.foundEmails
         THEN [acc EXCEPT !.matched = Append(@, participant.participantUUID),
                          !.foundEmails = @ \cup {normalizedEmail}]
         ELSE acc

\* body of the for loop of matchParticipants for one participant
matchStep(conflictEmails, acc, participant) ==
    IF participant.email = NoEmail
    THEN [acc EXCEPT !.noEmail = Append(@, participant.participantUUID)]
    ELSE LET normalizedEmail == normalizeEmail(participant.email) IN
         IF normalizedEmail \in conflictEmails
         THEN [acc EXCEPT !.matched = Append(@, participant.participantUUID),
                          !.foundEmails = @ \cup {normalizedEmail}]
         ELSE acc

\* the for loop of matchParticipants over the participants
RECURSIVE matchScan(_, _, _)
matchScan(conflictEmails, participants, acc) ==
    IF participants = <<>> THEN acc
    ELSE matchScan(conflictEmails, Tail(participants),
                   matchStep(conflictEmails, acc, Head(participants)))

\* matchParticipants(conflictEmails, participants): matched and noEmail as
\* participant ids, notFound as the conflict emails no participant had
matchParticipants(conflictEmails, participants) ==
    LET scan == matchScan(conflictEmails, participants, NoMatch)
    IN [matched |-> scan.matched,
        notFound |-> SetToSeq({email \in conflictEmails : email \notin scan.foundEmails}),
        noEmail |-> scan.noEmail]

\* getConflictEmailsForRound
getConflictEmailsForRound(r, rounds) == IF r \in DOMAIN rounds THEN rounds[r] ELSE {}

\* no sendParticipantsToBreakoutRooms call is running
NoBo == [pc |-> "none", participants |-> <<>>, k |-> 0, retryCount |-> 0, results |-> <<>>]

\* OperationResult of assignParticipantWithRetry and of the catch block
AssignResult(p, ok, rc, err) ==
    [participantUUID |-> p, success |-> ok, retryCount |-> rc, error |-> err]

\* result.error of a failed assignParticipantToBreakoutRoom; no error on success
AssignError(ok) == IF ok THEN "none" ELSE "Failed to assign participant"

\* what createBreakoutRooms may deliver: a room, a failure, a response
\* without a room id
CreateOutcomes == {"ok", "failed", "noRoomId"}

\* message of the Error thrown after createBreakoutRooms
CreateError(outcome) ==
    IF outcome = "noRoomId" THEN "No breakout room ID returned"
    ELSE "Failed to create breakout rooms"

\* (variant that goes on whatever createBreakoutRooms returned)
createSucceededAlways(outcome) == TRUE

\* createResult.success && createResult.rooms && breakoutRoomId
createSucceeded(outcome) == outcome = "ok"

\* (variant that opens the rooms after the first assignment)
isLastParticipantAlways(b) == TRUE

\* the for loop over participants has no further element
isLastParticipant(b) == b.k = Len(b.participants)

\* (variant that records every result)
isRecordedAlways(result) == TRUE

\* if (result.success) in the recording loops
isRecorded(result) == result.success

\* for (const result of results) if (result.success) addMovedParticipant(...)
RECURSIVE recordMoved(_, _, _, _)
recordMoved(ar, r, res, t) ==
    IF res = <<>> THEN ar
    ELSE recordMoved(IF isRecorded(Head(res))
                     THEN addMovedParticipant(ar, r, Head(res).participantUUID, t)
                     ELSE ar,
                     r, Tail(res), t)

\* successCount of the recording loops
SuccessCount(res) == Cardinality({i \in DOMAIN res : isRecorded(res[i])})

\* (variant that reports success whatever closeBreakoutRooms returned)
returnParticipantsFromBreakoutRoomsAlways(closeOk) == [success |-> TRUE]

\* returnParticipantsFromBreakoutRooms: { success } from closeBreakoutRooms
returnParticipantsFromBreakoutRooms(closeOk) == [success |-> closeOk]

isProcessing == ppc \in {"sending", "sendingFallback", "startNotify", "fallbackNotify",
                         "returning", "endNotify", "endError"}

InitControlPanel ==
    /\ ppc = "idle"
    /\ cachedParticipants = <<>>
    /\ noEmail = <<>>
    /\ participantsToMove = <<>>
    /\ bo = NoBo
    /\ succeeded = {}

\* RoundSelector onChange (disabled while isProcessing; the dialogs are modal)
SelectRound(r) ==
    /\ ppc = "idle"
    /\ SetSelectedRoundId(r)
    /\ UNCHANGED panelVars

\* handleFetchEmails, successful: setCachedParticipants(participants)
HandleFetchEmails(list) ==
    /\ ppc = "idle"
    /\ cachedParticipants' = <<list>>
    /\ UNCHANGED <<ppc, noEmail, participantsToMove, bo, succeeded>>
    /\ UNCHANGED storeVars

\* cachedParticipants.map(p => ({...p, email: emailOverrides.get(uuid) || p.email})):
\* an absent or empty override leaves the reported email
participantsWithOverrides(overrides, participants) ==
    [i \in DOMAIN participants |->
        LET uuid == participants[i].participantUUID IN
        IF uuid \in DOMAIN overrides /\ overrides[uuid] # ""
        THEN [participants[i] EXCEPT !.email = overrides[uuid]]
        ELSE participants[i]]

\* handleStartRound: apply the overrides, match and open the dialog
HandleStartRound ==
    /\ ppc = "idle"
    /\ selectedRoundId # Null
    /\ cachedParticipants # <<>>
    /\ LET conflictEmails == getConflictEmailsForRound(selectedRoundId, parsedRounds)
           match == matchParticipants(conflictEmails,
                        participantsWithOverrides(emailOverrides, cachedParticipants[1]))
       IN IF conflictEmails = {}
          THEN /\ noEmail' = <<>>
               /\ UNCHANGED <<ppc, participantsToMove>>
          ELSE /\ noEmail' = match.noEmail
               /\ IF match.matched # <<>>
                  THEN participantsToMove' = match.matched /\ ppc' = "startDialog"
                  ELSE UNCHANGED <<ppc, participantsToMove>>
    /\ UNCHANGED <<cachedParticipants, bo, succeeded>>
    /\ UNCHANGED storeVars

\* the start dialog's onCancel
CancelStartDialog ==
    /\ ppc = "startDialog"
    /\ ppc' = "idle"
    /\ participantsToMove' = <<>>
    /\ UNCHANGED <<cachedParticipants, noEmail, bo, succeeded>>
    /\ UNCHANGED storeVars

\* confirmStartRound up to the first await inside sendParticipantsToBreakoutRooms
ConfirmStartRound(t) ==
    /\ ppc = "startDialog"
    /\ selectedRoundId # Null
    /\ StartRound(selectedRoundId, t)
    /\ ppc' = "sending"
    /\ bo' = [NoBo EXCEPT !.pc = "list", !.participants = participantsToMove]
    /\ UNCHANGED <<cachedParticipants, noEmail, participantsToMove, succeeded>>

\* handleMoveFallbackParticipants with a non-empty selection out of noEmail
HandleMoveFallbackParticipants(selected) ==
    /\ ppc = "idle"
    /\ selectedRoundId # Null
    /\ selected # {}
    /\ selected \subseteq Range(noEmail)
    /\ ppc' = "sendingFallback"
    /\ bo' = [NoBo EXCEPT !.pc = "list",
                          !.participants = SelectSeq(noEmail, LAMBDA p : p \in selected)]
    /\ UNCHANGED <<cachedParticipants, noEmail, participantsToMove, succeeded>>
    /\ UNCHANGED storeVars

\* --- sendParticipantsToBreakoutRooms, one action per awaited call
Sending == ppc \in {"sending", "sendingFallback"}

\* the caller's continuation once sendParticipantsToBreakoutRooms returned
\* res: the recording loop, updateRoundStats, then await showNotification
SendReturns(res, t) ==
    LET r == selectedRoundId
        recorded == recordMoved(activeRounds, r, res, t)
        movedCount == IF ppc = "sending" THEN SuccessCount(res)
                      ELSE Cardinality(getMovedParticipants(recorded, r))
        final == IF r \in DOMAIN recorded
                 THEN updateRoundStats(recorded, r, movedCount, 0) ELSE recorded
    IN /\ IF final = activeRounds
          THEN UNCHANGED storeVars
          ELSE Commit([AppState EXCEPT !.activeRounds = final])
       /\ ppc' = IF ppc = "sending" THEN "startNotify" ELSE "fallbackNotify"
       /\ bo' = [bo EXCEPT !.pc = "none", !.results = res]
       /\ UNCHANGED <<cachedParticipants, noEmail, participantsToMove>>

\* the frame of an orchestration step that stays inside the call
BoStep ==
    /\ UNCHANGED <<ppc, cachedParticipants, noEmail, participantsToMove, succeeded>>
    /\ UNCHANGED storeVars

\* getBreakoutRoomList returned; open: success and state === 'open'
ListReturns(open) ==
    /\ Sending /\ bo.pc = "list"
    /\ bo' = [bo EXCEPT !.pc = IF open THEN "close" ELSE "create"]
    /\ BoStep

\* closeBreakoutRooms returned (a failure is only logged)
CloseReturns(ok) ==
    /\ Sending /\ bo.pc = "close"
    /\ bo' = [bo EXCEPT !.pc = IF ok THEN "waitClose" ELSE "create"]
    /\ BoStep

\* waitForBreakoutRoomsToClose returned (rooms closed or timed out)
WaitForBreakoutRoomsToClose ==
    /\ Sending /\ bo.pc = "waitClose"
    /\ bo' = [bo EXCEPT !.pc = "create"]
    /\ BoStep

\* waitForBreakoutRoomsToClose(timeoutMs = 5000) and its delay(400)
WAIT_TIMEOUT_MS == 5000
POLL_DELAY_MS == 400
\* time a getBreakoutRoomList call may take (ms)
Latencies == {0, 400}

\* the loop condition Date.now() - start < timeoutMs is false
waitTimedOut(elapsed) == elapsed >= WAIT_TIMEOUT_MS

\* (variant in which a timed-out wait throws)
afterWaitAbort(timedOut) == IF timedOut THEN "abort" ELSE "create"

\* where sendParticipantsToBreakoutRooms continues when the wait returned:
\* Step 2, whether the rooms closed or the time is up (only a warning)
afterWait(timedOut) == "create"

\* one iteration of the loop in waitForBreakoutRoomsToClose: the status
\* call returned after latency ms; stillOpen: success and state === 'open'.
\* The function returns when the rooms are not open, or, after the delay,
\* when the time is up; otherwise the next status call is issued
PollReturns(stillOpen, latency) ==
    /\ Sending /\ bo.pc = "waitClose"
    /\ LET after == waitElapsed + latency + POLL_DELAY_MS
       IN IF ~stillOpen
          THEN /\ bo' = [bo EXCEPT !.pc = afterWait(FALSE)]
               /\ waitElapsed' = waitElapsed + latency
          ELSE /\ waitElapsed' = after
               /\ bo' = [bo EXCEPT !.pc = IF waitTimedOut(after) THEN afterWait(TRUE)
                                          ELSE "waitClose"]
    /\ BoStep

\* createBreakoutRooms returned; ok: success with a room id. Otherwise the
\* catch block reports every participant as failed with retryCount 0
CreateReturns(outcome, t) ==
    /\ Sending /\ bo.pc = "create"
    /\ IF createSucceeded(outcome)
       THEN /\ bo' = [bo EXCEPT !.pc = "configure"]
            /\ BoStep
       ELSE /\ SendReturns([i \in DOMAIN bo.participants |->
                               AssignResult(bo.participants[i], FALSE, 0,
                                            CreateError(outcome))], t)
            /\ UNCHANGED succeeded

\* configureBreakoutRooms returned; its result is not looked at
ConfigureReturns(ok) ==
    /\ Sending /\ bo.pc = "configure"
    /\ bo' = [bo EXCEPT !.pc = "assign", !.k = 1, !.retryCount = 0]
    /\ BoStep

\* (variant that retries once more)
retryAssignInclusive(ok, retryCount) == ~ok /\ retryCount <= BREAKOUT_MAX_RETRIES

\* catch block of assignParticipantWithRetry: if (retryCount < MAX_RETRIES)
retryAssign(ok, retryCount) == ~ok /\ retryCount < BREAKOUT_MAX_RETRIES

\* assignParticipantToBreakoutRoom returned for participant k
\* (assignParticipantWithRetry, with the delays that follow)
AssignReturns(ok) ==
    /\ Sending /\ bo.pc = "assign"
    /\ LET p == bo.participants[bo.k]
           last == isLastParticipant(bo)
       IN IF retryAssign(ok, bo.retryCount)
          THEN /\ bo' = [bo EXCEPT !.retryCount = @ + 1]
               /\ UNCHANGED succeeded
          ELSE /\ bo' = [bo EXCEPT !.results = Append(@, AssignResult(p, ok, bo.retryCount,
                                                                       AssignError(ok))),
                                   !.retryCount = 0,
                                   !.k = IF last THEN @ ELSE @ + 1,
                                   !.pc = IF last THEN "open" ELSE "assign"]
               /\ succeeded' = IF ok THEN succeeded \cup {<<selectedRoundId, p>>}
                               ELSE succeeded
    /\ UNCHANGED <<ppc, cachedParticipants, noEmail, participantsToMove>>
    /\ UNCHANGED storeVars

\* openBreakoutRooms returned (a failure is only logged): return results
OpenReturns(ok, t) ==
    /\ Sending /\ bo.pc = "open"
    /\ SendReturns(bo.results, t)
    /\ UNCHANGED succeeded

\* --- end of a round
\* handleEndRound: open the end dialog
HandleEndRound ==
    /\ ppc = "idle"
    /\ selectedRoundId # Null
    /\ getMovedParticipants(activeRounds, selectedRoundId) # {}
    /\ cachedParticipants # <<>>
    /\ ppc' = "endDialog"
    /\ UNCHANGED <<cachedParticipants, noEmail, participantsToMove, bo, succeeded>>
    /\ UNCHANGED storeVars

\* the end dialog's onCancel
CancelEndDialog ==
    /\ ppc = "endDialog"
    /\ ppc' = "idle"
    /\ UNCHANGED <<cachedParticipants, noEmail, participantsToMove, bo, succeeded>>
    /\ UNCHANGED storeVars

\* confirmEndRound up to await returnParticipantsFromBreakoutRooms()
ConfirmEndRound ==
    /\ ppc = "endDialog"
    /\ selectedRoundId # Null
    /\ ppc' = "returning"
    /\ UNCHANGED <<cachedParticipants, noEmail, participantsToMove, bo, succeeded>>
    /\ UNCHANGED storeVars

\* closeBreakoutRooms returned inside returnParticipantsFromBreakoutRooms;
\* confirmEndRound continues: throw on !result.success, else endRound and
\* updateRoundStats(selectedRoundId, movedParticipants.size,
\* result.participantCount || 0), then await showNotification
ReturnResolves(closeOk, t) ==
    /\ ppc = "returning"
    /\ LET r == selectedRoundId
           result == returnParticipantsFromBreakoutRooms(closeOk)
           movedParticipants == getMovedParticipants(activeRounds, r)
           successCount == Field(result, "participantCount")
           ended == endRound(activeRounds, r, t)
           final == updateRoundStats(ended, r, Cardinality(movedParticipants), successCount)
       IN IF result.success
          THEN /\ IF r \in DOMAIN activeRounds
                  THEN Commit([AppState EXCEPT !.activeRounds = final])
                  ELSE UNCHANGED storeVars
               /\ noEmail' = <<>>
               /\ ppc' = "endNotify"
          ELSE /\ UNCHANGED storeVars
               /\ UNCHANGED noEmail
               /\ ppc' = "endError"
    /\ UNCHANGED <<cachedParticipants, participantsToMove, bo, succeeded>>

\* the notification was shown; finally: setIsProcessing(false)
Finish ==
    /\ ppc \in {"startNotify", "fallbackNotify", "endNotify", "endError"}
    /\ ppc' = "idle"
    /\ participantsToMove' = IF ppc = "startNotify" THEN <<>> ELSE participantsToMove
    /\ bo' = NoBo
    /\ UNCHANGED <<cachedParticipants, noEmail, succeeded>>
    /\ UNCHANGED storeVars

\* page refresh: the store is rebuilt from localStorage, the panel remounts
ReloadPage ==
    /\ Reload
    /\ ppc' = "idle"
    /\ cachedParticipants' = <<>>
    /\ noEmail' = <<>>
    /\ participantsToMove' = <<>>
    /\ bo' = NoBo
    /\ UNCHANGED succeeded

(* ---------------------------------------------------------------------- *)
(* Specifications                                                         *)
(* ---------------------------------------------------------------------- *)
\* work lists of the small specification: distinct ids 1..n
Prefix(n) == [i \in 1..n |-> i]
WorkLists == {Prefix(n) : n \in 0..NumParticipants}

\* no batch has been started
InitEngine ==
    /\ bpc = "idle"
    /\ kind = "none"
    /\ items = <<>>
    /\ chunkAt = 0
    /\ op = <<>>
    /\ results = <<>>
    /\ completed = 0
    /\ progress = <<>>
    /\ waitingRoomUUIDs = {}
    /\ fetches = 0
    /\ waitingRoomResult = [success |-> TRUE, participants |-> <<>>, error |-> "none"]
    /\ lateEntrants = {}

\* --- move / admit batches over a small work list
InitBatch ==
    /\ InitEngine
    /\ waitingRoom \in SUBSET Ids
    /\ InitStore
    /\ InitObs
    /\ InitControlPanel
    /\ InitAux
    /\ InitFn
    /\ InitAsync

NextBatch ==
    /\ \/ \E list \in WorkLists : MoveParticipantsToWaitingRoom(list)
       \/ \E list \in WorkLists : AdmitParticipantsFromWaitingRoom(list)
       \/ \E ok \in BOOLEAN : SnapshotReturns(ok)
       \/ \E i \in DOMAIN op, ok \in BOOLEAN : CallReturns(i, ok)
       \/ \E i \in DOMAIN op : BackoffElapsed(i)
       \/ ChunkCompletes
       \/ \E p \in Ids : EnterWaitingRoom(p)
    /\ UNCHANGED <<storeVars, obsVars, panelVars, auxVars, fnVars, asyncVars>>

SpecBatch == InitBatch /\ [][NextBatch]_vars

\* --- chunking: one move batch of ChunkItems participants, or of none
InitChunk ==
    /\ InitEngine
    /\ waitingRoom = {}
    /\ InitStore
    /\ InitObs
    /\ InitControlPanel
    /\ InitAux
    /\ InitFn
    /\ InitAsync

NextChunk ==
    /\ \/ \E n \in {0, ChunkItems} : MoveParticipantsToWaitingRoom(Prefix(n))
       \/ \E i \in DOMAIN op, ok \in BOOLEAN : CallReturns(i, ok)
       \/ \E i \in DOMAIN op : BackoffElapsed(i)
       \/ ChunkCompletes
    /\ UNCHANGED <<storeVars, obsVars, panelVars, auxVars, fnVars, asyncVars>>

SpecChunk == InitChunk /\ [][NextChunk]_vars

\* --- race: one admit batch of ChunkItems targets (two chunks) while
\* other participants enter the waiting room
InitRace ==
    /\ InitEngine
    /\ waitingRoom \in {w \in SUBSET (1..ChunkItems) : Cardinality(w) <= MaxWaiting}
    /\ InitStore
    /\ InitObs
    /\ InitControlPanel
    /\ InitAux
    /\ InitFn
    /\ InitAsync

NextRace ==
    /\ \/ AdmitParticipantsFromWaitingRoom(Prefix(ChunkItems))
       \/ \E ok \in BOOLEAN : SnapshotReturns(ok)
       \/ \E i \in DOMAIN op, ok \in BOOLEAN : CallReturns(i, ok)
       \/ \E i \in DOMAIN op : BackoffElapsed(i)
       \/ ChunkCompletes
       \/ \E p \in 1..ChunkItems : EnterWaitingRoom(p)
    /\ UNCHANGED <<storeVars, obsVars, panelVars, auxVars, fnVars, asyncVars>>

SpecRace == InitRace /\ [][NextRace]_vars

\* state of a round in the tracker's state machine
Phase(ar, r) ==
    IF r \notin DOMAIN ar THEN "unstarted"
    ELSE IF ar[r].endedAt = Undefined THEN "active" ELSE "ended"

\* record the command just executed and the phase its round was in
Observe(cmd, r) ==
    /\ lastCmd' = <<cmd, r, Phase(activeRounds, r)>>
    /\ UNCHANGED <<reloaded, loaded>>

\* Date.now() of a running page: not before any timestamp already recorded
Now ==
    {t \in Times : \A r \in DOMAIN activeRounds :
        t >= activeRounds[r].startedAt /\ t >= activeRounds[r].endedAt}

\* --- round commands of the store, called in any order
InitRounds ==
    /\ InitEngine
    /\ waitingRoom = {}
    /\ InitStore
    /\ InitObs
    /\ InitControlPanel
    /\ InitAux
    /\ InitFn
    /\ InitAsync

\* a caller reads getMovedParticipants(roundId): get() only, no set()
GetMovedParticipants(r) ==
    /\ returned' = getMovedParticipants(activeRounds, r)
    /\ UNCHANGED storeVars

NextRounds ==
    /\ \/ /\ \/ \E r \in RoundIds, t \in Now :
                   StartRound(r, t) /\ Observe("startRound", r)
             \/ \E r \in RoundIds, t \in Now : EndRound(r, t) /\ Observe("endRound", r)
             \/ \E r \in RoundIds, p \in Movers, t \in Now :
                   AddMovedParticipant(r, p, t) /\ Observe("addMovedParticipant", r)
             \/ \E r \in RoundIds, c \in StatPairs :
                   UpdateRoundStats(r, c[1], c[2]) /\ Observe("updateRoundStats", r)
             \/ \E r \in RoundIds : ClearRound(r) /\ Observe("clearRound", r)
          /\ UNCHANGED returned
       \/ \E r \in RoundIds :
             GetMovedParticipants(r) /\ Observe("getMovedParticipants", r)
    /\ UNCHANGED <<batchVars, panelVars, trace, waitElapsed, overrideLog, fnVars, asyncVars>>

SpecRounds == InitRounds /\ [][NextRounds]_vars

\* --- all persisting commands of the store, and page reloads
InitPersist == InitRounds

NextPersist ==
    /\ \/ \E m \in RoundMaps : SetParsedRounds(m) /\ UNCHANGED reloaded
       \/ \E m \in NameMaps : SetEmailToName(m) /\ UNCHANGED reloaded
       \/ \E r \in RoundIds \cup {Null} : SetSelectedRoundId(r) /\ UNCHANGED reloaded
       \/ \E r \in RoundIds, t \in Now : StartRound(r, t) /\ UNCHANGED reloaded
       \/ \E r \in RoundIds, t \in Now : EndRound(r, t) /\ UNCHANGED reloaded
       \/ \E r \in RoundIds, p \in Movers, t \in Now :
             AddMovedParticipant(r, p, t) /\ UNCHANGED reloaded
       \/ \E r \in RoundIds, c \in StatPairs :
             UpdateRoundStats(r, c[1], c[2]) /\ UNCHANGED reloaded
       \/ \E r \in RoundIds : ClearRound(r) /\ UNCHANGED reloaded
       \/ Reload /\ reloaded' = TRUE
    /\ UNCHANGED <<lastCmd, loaded>>
    /\ UNCHANGED <<batchVars, panelVars, auxVars, fnVars, asyncVars>>

SpecPersist == InitPersist /\ [][NextPersist]_vars

\* --- round trip: saveState then loadPersistedState on an arbitrary model
RoundBodies ==
    {[movedParticipants |-> mv, startedAt |-> s, endedAt |-> e,
      movedCount |-> c[1], admittedCount |-> c[2]] :
        mv \in SUBSET Movers, s \in {Undefined} \cup Times,
        e \in {Undefined} \cup Times, c \in StatPairs}
RoundStateMaps ==
    UNION {{[r \in D |-> [roundId |-> r] @@ f[r]] : f \in [D -> RoundBodies]} :
           D \in SUBSET RoundIds}
\* the other parts of the model, varied together
Fixtures ==
    {[parsedRounds |-> <<>>, emailToName |-> <<>>, selectedRoundId |-> Null],
     [parsedRounds |-> [r \in {"r1"} |-> Emails], emailToName |-> <<>>,
      selectedRoundId |-> "r1"],
     [parsedRounds |-> [r \in RoundIds |-> IF r = "r1" THEN {"alice@example.com"} ELSE Emails],
      emailToName |-> [e \in {"alice@example.com"} |-> "Alice"], selectedRoundId |-> "r2"],
     [parsedRounds |-> [r \in RoundIds |-> IF r = "r1" THEN {} ELSE {"bob@example.com"}],
      emailToName |-> [e \in Emails |-> "Alice"], selectedRoundId |-> Null]}

InitRoundTrip ==
    /\ InitEngine
    /\ waitingRoom = {}
    /\ InitObs
    /\ InitControlPanel
    /\ InitAux
    /\ InitFn
    /\ InitAsync
    /\ storage = <<>>
    /\ emailOverrides = <<>>
    /\ sessionId \in SessionIds
    /\ activeRounds \in RoundStateMaps
    /\ \E x \in Fixtures :
         /\ parsedRounds = x.parsedRounds
         /\ emailToName = x.emailToName
         /\ selectedRoundId = x.selectedRoundId

\* saveState(get()) alone
SaveState ==
    /\ storage = <<>>
    /\ storage' = saveState(AppState)
    /\ UNCHANGED <<sessionId, parsedRounds, emailToName, activeRounds, selectedRoundId,
                   emailOverrides>>
    /\ UNCHANGED obsVars

\* loadPersistedState() alone
LoadPersistedState ==
    /\ storage # <<>>
    /\ loaded = <<>>
    /\ loaded' = loadPersistedState(storage)
    /\ UNCHANGED <<lastCmd, reloaded>>
    /\ UNCHANGED storeVars

NextRoundTrip ==
    /\ \/ SaveState
       \/ LoadPersistedState
    /\ UNCHANGED <<batchVars, panelVars, auxVars, fnVars, asyncVars>>

SpecRoundTrip == InitRoundTrip /\ [][NextRoundTrip]_vars

\* --- the control panel after a CSV import: rounds are started and ended
\* through breakout rooms, with page reloads
ImportedRounds == [r \in RoundIds |-> IF r = "r1" THEN {"alice@example.com"} ELSE Emails]

InitPanel ==
    /\ InitEngine
    /\ waitingRoom = {}
    /\ InitObs
    /\ InitControlPanel
    /\ InitAux
    /\ InitFn
    /\ InitAsync
    /\ sessionId = "s1"
    /\ parsedRounds = ImportedRounds
    /\ emailToName = [e \in {"alice@example.com"} |-> "Alice"]
    /\ activeRounds = <<>>
    /\ selectedRoundId = Null
    /\ emailOverrides = <<>>
    /\ storage = saveState(AppState)

NextPanel ==
    /\ \/ \E r \in RoundIds \cup {Null} : SelectRound(r)
       \/ \E list \in ParticipantLists : HandleFetchEmails(list)
       \/ HandleStartRound
       \/ CancelStartDialog
       \/ \E t \in Now : ConfirmStartRound(t)
       \/ \E selected \in SUBSET Movers : HandleMoveFallbackParticipants(selected)
       \/ \E open \in BOOLEAN : ListReturns(open)
       \/ \E ok \in BOOLEAN : CloseReturns(ok)
       \/ WaitForBreakoutRoomsToClose
       \/ \E outcome \in {"ok", "failed"}, t \in Now : CreateReturns(outcome, t)
       \/ \E ok \in BOOLEAN : ConfigureReturns(ok)
       \/ \E ok \in BOOLEAN : AssignReturns(ok)
       \/ \E ok \in BOOLEAN, t \in Now : OpenReturns(ok, t)
       \/ HandleEndRound
       \/ CancelEndDialog
       \/ ConfirmEndRound
       \/ \E closeOk \in BOOLEAN, t \in Now : ReturnResolves(closeOk, t)
       \/ Finish
       \/ ReloadPage
    /\ UNCHANGED <<batchVars, obsVars, auxVars, fnVars, asyncVars>>

SpecPanel == InitPanel /\ [][NextPanel]_vars

\* --- one call of sendParticipantsToBreakoutRooms for two participants,
\* with every collaborator call and return written to the trace
Event(ev, name, arg) == [ev |-> ev, name |-> name, arg |-> arg]

\* the collaborator call that is in flight when the orchestration is at b
CallOf(b) ==
    IF b.pc = "assign" THEN Event("call", "assign", b.participants[b.k])
    ELSE IF b.pc = "waitClose" THEN Event("call", "list", "poll")
    ELSE Event("call", b.pc, "")

\* append the return just seen and the call issued next, if any
Log(name, arg) ==
    trace' = trace \o <<Event("ret", name, arg)>>
                   \o (IF bo'.pc = "none" THEN <<>> ELSE <<CallOf(bo')>>)

Outcome(ok) == IF ok THEN "ok" ELSE "failed"

InitBreakout ==
    /\ InitEngine
    /\ waitingRoom = {}
    /\ InitObs
    /\ InitAux
    /\ InitFn
    /\ InitAsync
    /\ sessionId = "s1"
    /\ parsedRounds = ImportedRounds
    /\ emailToName = [e \in {"alice@example.com"} |-> "Alice"]
    /\ activeRounds = <<>>
    /\ selectedRoundId = "r2"
    /\ emailOverrides = <<>>
    /\ storage = saveState(AppState)
    /\ ppc = "startDialog"
    /\ cachedParticipants \in {<<l>> : l \in ParticipantLists}
    /\ noEmail = <<>>
    /\ participantsToMove = <<"p1", "p2">>
    /\ bo = NoBo
    /\ succeeded = {}

NextBreakout ==
    /\ \/ \E t \in Now : ConfirmStartRound(t) /\ Log("confirm", "") /\ UNCHANGED waitElapsed
       \/ \E open \in BOOLEAN :
             ListReturns(open) /\ Log("list", IF open THEN "open" ELSE "closed")
                               /\ UNCHANGED waitElapsed
       \/ \E ok \in BOOLEAN : CloseReturns(ok) /\ Log("close", Outcome(ok)) /\ waitElapsed' = 0
       \/ \E stillOpen \in BOOLEAN, latency \in Latencies :
             /\ PollReturns(stillOpen, latency)
             /\ IF bo'.pc # "waitClose"
                THEN Log("wait", IF stillOpen THEN "timeout" ELSE "closed")
                ELSE UNCHANGED trace
       \/ \E outcome \in CreateOutcomes, t \in Now :
             CreateReturns(outcome, t) /\ Log("create", outcome) /\ UNCHANGED waitElapsed
       \/ \E ok \in BOOLEAN :
             ConfigureReturns(ok) /\ Log("configure", Outcome(ok)) /\ UNCHANGED waitElapsed
       \/ \E ok \in BOOLEAN :
             AssignReturns(ok) /\ Log("assign", Outcome(ok)) /\ UNCHANGED waitElapsed
       \/ \E ok \in BOOLEAN, t \in Now :
             OpenReturns(ok, t) /\ Log("open", Outcome(ok)) /\ UNCHANGED waitElapsed
       \/ Finish /\ UNCHANGED <<trace, waitElapsed>>
    /\ UNCHANGED <<batchVars, obsVars, returned, overrideLog, fnVars, asyncVars>>

SpecBreakout == InitBreakout /\ [][NextBreakout]_vars

\* the same, every collaborator call returns and every timer fires
SpecBreakoutLive == SpecBreakout /\ WF_vars(NextBreakout)

(* ====================================================================== *)
(* Properties of the batch engine                                         *)
(* ====================================================================== *)
Finished(i) == i \in DOMAIN op /\ op[i].st = "done" /\ op[i].calls >= 1
InFlight == {i \in DOMAIN op : op[i].st \in {"calling", "sleeping"}}
\* 0-based number of the chunk that holds item i
ChunkIndex(i) == (i - 1) \div CONCURRENCY_LIMIT

\* C1: an operation of a move/admit batch whose collaborator call fails
\* exactly k < MAX_RETRIES times and then succeeds is reported success=true
\* with retryCount=k; one whose call fails MAX_RETRIES+1 times is reported
\* success=false with retryCount=MAX_RETRIES.
C1_RetryBudget ==
    \A i \in DOMAIN op :
        Finished(i) =>
            /\ (op[i].fails < MAX_RETRIES /\ op[i].calls = op[i].fails + 1) =>
                   (op[i].res.success /\ op[i].res.retryCount = op[i].fails)
            /\ (op[i].fails = MAX_RETRIES + 1) =>
                   (~op[i].res.success /\ op[i].res.retryCount = MAX_RETRIES)

\* C2: in an admit batch every target absent from the snapshot is reported
\* failed with the "not in waiting room" reason and retryCount 0, and no
\* admit call is ever issued for it.
C2_AbsentFailsFast ==
    (kind = "admit" /\ bpc \in {"run", "done"}) =>
        \A i \in DOMAIN op :
            (op[i].st # "pending" /\ items[i] \notin waitingRoomUUIDs) =>
                /\ op[i].st = "done"
                /\ op[i].calls = 0
                /\ op[i].res = NotInWaitingRoomResult(items[i])

\* a finished admit batch with a target that is absent from the snapshot
\* although it sits in the waiting room (its admit could have succeeded),
\* next to a target that was admitted
C2_Witness ==
    /\ kind = "admit"
    /\ bpc = "done"
    /\ \E i, j \in DOMAIN op :
        /\ items[i] \notin waitingRoomUUIDs
        /\ items[i] \in waitingRoom
        /\ results[i] = NotInWaitingRoomResult(items[i])
        /\ results[j].success

\* state part of C3: one fetch per admit batch, taken before any admit
\* call, and the snapshot alone decides for every issued item
C3_SnapshotDecides ==
    (kind = "admit") =>
        /\ fetches = 1
        /\ (bpc = "fetch" => op = <<>>)
        /\ \A i \in DOMAIN op :
            op[i].st # "pending" =>
                IF items[i] \in waitingRoomUUIDs
                THEN op[i].calls >= 1
                ELSE op[i].calls = 0 /\ op[i].st = "done"
                     /\ op[i].res = NotInWaitingRoomResult(items[i])

\* C3: an admit batch fetches the waiting-room membership exactly once,
\* before the first admit call, and uses that snapshot for every item: the
\* snapshot never changes while the batch runs, and a participant who
\* enters the waiting room after it was taken is reported "not in waiting
\* room" without an admit call.
C3_SingleSnapshot ==
    /\ []C3_SnapshotDecides
    /\ [][bpc = "run" => waitingRoomUUIDs' = waitingRoomUUIDs /\ fetches' = fetches]_vars

\* a target of the second chunk entered the waiting room while the first
\* chunk was running and was nevertheless reported absent
C3_Witness ==
    /\ kind = "admit"
    /\ bpc = "done"
    /\ \E i \in DOMAIN op :
        /\ ChunkIndex(i) = 1
        /\ items[i] \in lateEntrants
        /\ items[i] \in waitingRoom
        /\ op[i].calls = 0
        /\ results[i] = NotInWaitingRoomResult(items[i])
    /\ \E j \in DOMAIN op : results[j].success

\* C4: at most CONCURRENCY_LIMIT operations of a batch are in flight, and
\* no operation of a later chunk is issued before every operation of each
\* earlier chunk has completed (all its retries and backoff waits included).
C4_BoundedChunks ==
    /\ Cardinality(InFlight) <= CONCURRENCY_LIMIT
    /\ \A i, j \in DOMAIN op :
        (ChunkIndex(i) < ChunkIndex(j) /\ op[j].st # "pending") => op[i].st = "done"

\* the second chunk is in flight after a first chunk in which one item
\* used all its retries and the items completed out of list order
C4_Witness ==
    /\ kind = "move"
    /\ \E j \in DOMAIN op : ChunkIndex(j) = 1 /\ op[j].st = "sleeping"
    /\ \E i \in DOMAIN op : ChunkIndex(i) = 0 /\ op[i].fails = MAX_RETRIES + 1
    /\ Len(results) = CONCURRENCY_LIMIT

(* ====================================================================== *)
(* Properties of the store                                                *)
(* ====================================================================== *)
\* the step is command cmd on round r
IsStep(cmd, r) == lastCmd' = <<cmd, r, Phase(activeRounds, r)>>

\* what a startRound(r) step at time t may change
StartRoundEffect(r, t) ==
    /\ DOMAIN activeRounds' = DOMAIN activeRounds \cup {r}
    /\ getMovedParticipants(activeRounds', r) = getMovedParticipants(activeRounds, r)
    /\ activeRounds'[r].roundId = r
    /\ activeRounds'[r].startedAt = t
    /\ activeRounds'[r].endedAt = Undefined
    /\ r \in DOMAIN activeRounds =>
          /\ activeRounds'[r].movedCount = activeRounds[r].movedCount
          /\ activeRounds'[r].admittedCount = activeRounds[r].admittedCount
    /\ \A x \in DOMAIN activeRounds \ {r} : activeRounds'[x] = activeRounds[x]

\* C6: startRound(roundId) never changes the round's moved-set and never
\* adds a second record: on an unknown round it creates one record with an
\* empty moved-set, on a known round (active or ended) it only sets the
\* start timestamp and clears the end timestamp.
C6_StartKeepsMovedSet ==
    [][\A r \in RoundIds, t \in Times :
          (IsStep("startRound", r) /\ StartRound(r, t)) => StartRoundEffect(r, t)]_vars

\* an ended round with a non-empty moved-set has just been started again
C6_Witness ==
    \E r \in RoundIds :
        /\ lastCmd = <<"startRound", r, "ended">>
        /\ getMovedParticipants(activeRounds, r) # {}
        /\ activeRounds[r].endedAt = Undefined

\* C9: at any time a page reload (createInitialState from the persisted
\* document) yields the conflict sets, name map, round states and selected
\* round that are in memory.
C9_SurvivesRestart ==
    LET st == createInitialState(storage, sessionId) IN
    /\ st.parsedRounds = parsedRounds
    /\ st.emailToName = emailToName
    /\ st.activeRounds = activeRounds
    /\ st.selectedRoundId = selectedRoundId

\* after a reload the store holds conflicts, names, a selected round and an
\* ended round with moved participants and counters
C9_Witness ==
    /\ reloaded
    /\ parsedRounds # <<>>
    /\ emailToName # <<>>
    /\ selectedRoundId # Null
    /\ \E r \in DOMAIN activeRounds :
        /\ activeRounds[r].movedParticipants = Movers
        /\ activeRounds[r].endedAt # Undefined
        /\ activeRounds[r].movedCount # 0

\* C10: saveState followed by loadPersistedState returns a model equal by
\* content to the one saved, also for rounds without start or end timestamp.
C10_RoundTrip ==
    loaded # <<>> => loaded[1] = AppState

\* a model with a round lacking both timestamps and a round with moved
\* participants went through save and load
C10_Witness ==
    /\ loaded # <<>>
    /\ \E r \in DOMAIN activeRounds :
        activeRounds[r].startedAt = Undefined /\ activeRounds[r].endedAt = Undefined
    /\ \E r \in DOMAIN activeRounds :
        activeRounds[r].movedParticipants = Movers /\ activeRounds[r].endedAt # Undefined
    /\ parsedRounds # <<>>

(* ====================================================================== *)
(* Properties of the control panel                                        *)
(* ====================================================================== *)
\* C5: in every reachable state each participant id in a round's moved-set
\* was the subject of an assignment for that round whose result was
\* success=true; a failed operation never adds its id.
C5_MovedOnlyAfterSuccess ==
    \A r \in DOMAIN activeRounds :
        \A p \in activeRounds[r].movedParticipants : <<r, p>> \in succeeded

\* a start with one failed and one successful assignment has been recorded
C5_Witness ==
    /\ ppc = "startNotify"
    /\ Len(bo.results) = 2
    /\ \E i, j \in DOMAIN bo.results :
        /\ ~bo.results[i].success
        /\ bo.results[j].success
        /\ getMovedParticipants(activeRounds, selectedRoundId)
              = {bo.results[j].participantUUID}

\* what a successful end of round r at time t changes
EndRoundEffect(r, t) ==
    /\ r \in DOMAIN activeRounds
    /\ DOMAIN activeRounds' = DOMAIN activeRounds
    /\ activeRounds'[r].endedAt = t
    /\ activeRounds'[r].startedAt = activeRounds[r].startedAt
    /\ activeRounds'[r].roundId = r
    /\ getMovedParticipants(activeRounds', r) = getMovedParticipants(activeRounds, r)
    /\ getMovedParticipants(activeRounds', r) # {}
    /\ \A x \in DOMAIN activeRounds \ {r} : activeRounds'[x] = activeRounds[x]

\* C7: a confirmed end whose return operation succeeded records the end
\* timestamp and leaves the round's moved-set, start timestamp and record
\* in place.
C7_EndKeepsMovedSet ==
    [][\A t \in Times :
          ReturnResolves(TRUE, t) => EndRoundEffect(selectedRoundId, t)]_vars

\* an active round with two moved participants has been ended
C7_Witness ==
    /\ ppc = "endNotify"
    /\ selectedRoundId \in DOMAIN activeRounds
    /\ activeRounds[selectedRoundId].endedAt # Undefined
    /\ activeRounds[selectedRoundId].movedParticipants = Movers
    /\ activeRounds[selectedRoundId].movedCount = 2

\* C8: when the return operation of an end action fails, the moved-set,
\* the end timestamp and the counters of every round stay as they were (in
\* memory and in the persisted document), and the end can be tried again.
C8_FailedReturnKeepsRound ==
    [][\A t \in Times :
          ReturnResolves(FALSE, t) =>
              /\ activeRounds' = activeRounds
              /\ storage' = storage
              /\ selectedRoundId' = selectedRoundId
              /\ getMovedParticipants(activeRounds', selectedRoundId') # {}
              /\ ppc' = "endError"]_vars

\* the return failed for an active round with two moved participants
C8_Witness ==
    /\ ppc = "endError"
    /\ Phase(activeRounds, selectedRoundId) = "active"
    /\ getMovedParticipants(activeRounds, selectedRoundId) = Movers

(* ====================================================================== *)
(* Properties of the breakout orchestration                               *)
(* ====================================================================== *)
\* positions of the trace holding the given kind of event
Pos(ev, name) == {i \in DOMAIN trace : trace[i].ev = ev /\ trace[i].name = name}

\* the creation was answered with a failure or without a room id
CreateFailed == \E i \in Pos("ret", "create") : trace[i].arg # "ok"

\* C11: if the creation fails, every input participant is reported failed
\* with the creation error and no configure, assign or open call is issued.
C11_CreateFailureFailsAll ==
    CreateFailed =>
        /\ Pos("call", "assign") = {}
        /\ Pos("call", "open") = {}
        /\ Pos("call", "configure") = {}
        /\ ppc = "startNotify" =>
              /\ Len(bo.results) = Len(participantsToMove)
              /\ \A i \in DOMAIN bo.results :
                    /\ bo.results[i].participantUUID = participantsToMove[i]
                    /\ ~bo.results[i].success
                    /\ bo.results[i].retryCount = 0
                    /\ \E j \in Pos("ret", "create") :
                          bo.results[i].error = CreateError(trace[j].arg)
              /\ getMovedParticipants(activeRounds, selectedRoundId) = {}

\* the creation returned no room id and the call has returned its results
C11_Witness ==
    /\ ppc = "startNotify"
    /\ \E i \in Pos("ret", "create") : trace[i].arg = "noRoomId"
    /\ Len(bo.results) = 2
    /\ bo.results[2].error = "No breakout room ID returned"

\* C12: if the configuration fails, no assignment is attempted and every
\* participant is reported failed.
C12_ConfigureFailureAborts ==
    (\E i \in Pos("ret", "configure") : trace[i].arg = "failed") =>
        /\ Pos("call", "assign") = {}
        /\ ppc = "startNotify" => \A i \in DOMAIN bo.results : ~bo.results[i].success

\* place of a call in the prescribed order
Rank(e) ==
    IF e.name = "close" THEN 1
    ELSE IF e.name = "create" THEN 2
    ELSE IF e.name = "configure" THEN 3
    ELSE IF e.name = "assign"
         THEN 3 + (CHOOSE k \in DOMAIN participantsToMove : participantsToMove[k] = e.arg)
    ELSE 4 + Len(participantsToMove)

\* the calls issued so far, status calls left out
Calls == SelectSeq(trace, LAMBDA e : e.ev = "call" /\ e.name # "list")

\* C13: close (only after the session was reported open), one create, one
\* configure, the assignments in list order with at most one in flight, and
\* open only after the last assignment and its retries have returned.
C13_CallOrder ==
    LET n == Len(participantsToMove)
        ranks == [i \in DOMAIN Calls |-> Rank(Calls[i])]
        count(r) == Cardinality({i \in DOMAIN ranks : ranks[i] = r})
        inFlight == Cardinality(Pos("call", "assign")) - Cardinality(Pos("ret", "assign"))
    IN ppc # "idle" =>
       /\ \A i, j \in DOMAIN ranks : i < j => ranks[i] <= ranks[j]
       /\ count(1) <= 1 /\ count(2) <= 1 /\ count(3) <= 1 /\ count(4 + n) <= 1
       /\ \A k \in 1..n : count(3 + k) <= BREAKOUT_MAX_RETRIES + 1
       /\ \A r \in 3..(4 + n) : count(r) > 0 => count(r - 1) > 0
       /\ count(1) > 0 <=> (\E i \in Pos("ret", "list") : trace[i].arg = "open")
       /\ (Pos("ret", "list") # {} /\ count(1) = 0) => count(2) > 0
       /\ inFlight \in {0, 1}
       /\ count(4 + n) > 0 => inFlight = 0 /\ Len(bo.results) = n
       /\ (ppc = "startNotify" /\ ~CreateFailed) =>
             count(2) = 1 /\ count(3) = 1 /\ count(4 + n) = 1

\* after a close, the second participant was assigned at its second try
\* and the rooms were opened
C13_Witness ==
    /\ ppc = "startNotify"
    /\ Pos("call", "close") # {}
    /\ Pos("call", "open") # {}
    /\ Len(bo.results) = 2
    /\ bo.results[2].success /\ bo.results[2].retryCount = 1

\* C14: a status call of the wait is only issued while less than 5 s have
\* passed, the wait always ends, and the orchestration then goes on to
\* create the room, also when the session was still open at the end.
C14_WaitTerminates ==
    /\ [](bo.pc = "waitClose" => waitElapsed < WAIT_TIMEOUT_MS)
    /\ ((bo.pc = "waitClose") ~> (bo.pc = "create"))

\* the wait timed out, the room was created and a participant assigned
C14_Witness ==
    /\ \E i \in Pos("ret", "wait") : trace[i].arg = "timeout"
    /\ waitElapsed >= WAIT_TIMEOUT_MS
    /\ \E i \in Pos("ret", "assign") : trace[i].arg = "ok"

(* ====================================================================== *)
(* Properties of retryWithBackoff and processBatch                        *)
(* ====================================================================== *)
\* the delays before the 2nd, 3rd and 4th attempt
Delays == <<300, 900, 2700>>

\* the retry loop of item i is where the claim puts it
RetrySchedule(i) ==
    LET o == op[i] IN
    /\ o.calls <= MAX_RETRIES + 1
    /\ o.slept = SubSeq(Delays, 1, Len(o.slept))
    /\ o.st = "calling" => Len(o.slept) = o.calls - 1 /\ o.fails = o.calls - 1
    /\ o.st = "sleeping" => Len(o.slept) = o.calls /\ o.fails = o.calls /\ o.calls <= MAX_RETRIES
    /\ (o.st = "done" /\ o.calls > 0) =>
          /\ Len(o.slept) = o.calls - 1
          /\ o.res.success => o.fails = o.calls - 1
          /\ ~o.res.success => o.fails = MAX_RETRIES + 1 /\ o.calls = MAX_RETRIES + 1

\* C15: at most 4 invocations, waits of 300, 900 and 2700 ms before the
\* 2nd, 3rd and 4th, no wait after the 4th failure, and no invocation
\* after the operation has succeeded or failed for good.
C15_BackoffSchedule ==
    /\ [](\A i \in DOMAIN op : RetrySchedule(i))
    /\ [][\A i \in DOMAIN op :
            (op[i].st = "done" /\ bpc' = "run") => (i \in DOMAIN op' /\ op'[i] = op[i])]_vars

\* one operation succeeded at its 4th attempt, another failed 4 times
C15_Witness ==
    \E i, j \in DOMAIN op :
        /\ op[i].st = "done" /\ op[i].res.success /\ op[i].slept = Delays
        /\ op[j].st = "done" /\ ~op[j].res.success /\ op[j].calls = 4
           /\ op[j].slept = Delays

\* C16: onProgress fires once per completed chunk, after every operation
\* of the chunk has completed, with (items completed so far, total): the
\* k-th call reports min(5k, total), the last one (total, total), and an
\* empty work list never fires it.
C16_ProgressPerChunk ==
    LET n == Len(items)
        chunksDone == IF bpc = "done" THEN (n + CONCURRENCY_LIMIT - 1) \div CONCURRENCY_LIMIT
                      ELSE chunkAt \div CONCURRENCY_LIMIT
    IN bpc \in {"run", "done"} =>
       /\ Len(progress) = chunksDone
       /\ \A k \in DOMAIN progress : progress[k] = <<Min(k * CONCURRENCY_LIMIT, n), n>>
       /\ \A k \in DOMAIN progress :
             \A i \in ChunkOf((k - 1) * CONCURRENCY_LIMIT, n) : op[i].st = "done"
       /\ (bpc = "done" /\ n > 0) => progress[Len(progress)] = <<n, n>>
       /\ n = 0 => progress = <<>>

\* a batch of two chunks has finished: two calls, (5, 6) then (6, 6)
C16_Witness ==
    /\ bpc = "done"
    /\ Len(items) = ChunkItems
    /\ Len(progress) = 2
    /\ progress[1][1] = CONCURRENCY_LIMIT
    /\ progress[2] = <<ChunkItems, ChunkItems>>

(* ====================================================================== *)
(* Properties of the round counters                                       *)
(* ====================================================================== *)
\* ids reported success=true by the send call that has just returned
Successes(res) == {res[i].participantUUID : i \in {j \in DOMAIN res : res[j].success}}

\* the step in which a send call returns and its results are recorded
SendReturned == ppc \in {"sending", "sendingFallback"} /\ ppc' \in {"startNotify", "fallbackNotify"}

\* C17: a send whose successful moves are all for identifiers already in
\* the round's moved-set leaves the moved-set as it is and does not
\* increase the round's moved counter.
C17_RepeatDoesNotCount ==
    [][LET r == selectedRoundId
           done == Successes(bo'.results)
       IN (SendReturned /\ done # {} /\ r \in DOMAIN activeRounds
             /\ done \subseteq activeRounds[r].movedParticipants) =>
              /\ activeRounds'[r].movedParticipants = activeRounds[r].movedParticipants
              /\ activeRounds'[r].movedCount <= activeRounds[r].movedCount]_vars

\* C18: after a confirmed end the admitted counter of the round is the
\* number of participants reported as returned (the return closes the
\* rooms for every moved participant and each is logged as a success).
C18_AdmittedCount ==
    ppc = "endNotify" =>
        activeRounds[selectedRoundId].admittedCount
            = Cardinality(activeRounds[selectedRoundId].movedParticipants)

\* C19: getMovedParticipants(roundId) returns the current moved-set of the
\* round in every state; for a round without a record it returns the empty
\* set and leaves the store, and so the absence of the record, as it was.
C19_GetMovedParticipants ==
    [][\A r \in RoundIds :
          IsStep("getMovedParticipants", r) =>
              /\ returned' = IF r \in DOMAIN activeRounds
                             THEN activeRounds[r].movedParticipants
                             ELSE {}
              /\ activeRounds' = activeRounds
              /\ storage' = storage]_vars

\* an unknown round was asked for while another round holds a moved-set,
\* and the unknown round still has no record
C19_Witness ==
    /\ lastCmd = <<"getMovedParticipants", "r1", "unstarted">>
    /\ returned = {}
    /\ "r1" \notin DOMAIN activeRounds
    /\ "r2" \in DOMAIN activeRounds
    /\ activeRounds["r2"].movedParticipants = Movers
    /\ activeRounds["r2"].endedAt # Undefined

(* ---------------------------------------------------------------------- *)
(* Email overrides of the store                                           *)
(* ---------------------------------------------------------------------- *)
\* emails typed or imported for a participant
OverrideInputs == {"alice@example.com", " Bob@Example.com"}

\* Map.set / Map.delete on a copy of a map
MapSet(m, k, v) == [x \in DOMAIN m \cup {k} |-> IF x = k THEN v ELSE m[x]]
MapDelete(m, k) == [x \in DOMAIN m \ {k} |-> m[x]]

\* setEmailOverride: stores email.toLowerCase().trim(); set() only, the
\* store does not call saveState
SetEmailOverride(p, e) ==
    /\ emailOverrides' = MapSet(emailOverrides, p, normalizeEmail(e))
    /\ overrideLog' = MapSet(overrideLog, p, normalizeEmail(e))
    /\ UNCHANGED <<sessionId, parsedRounds, emailToName, activeRounds, selectedRoundId,
                   storage>>

\* removeEmailOverride: set() only
RemoveEmailOverride(p) ==
    /\ emailOverrides' = MapDelete(emailOverrides, p)
    /\ overrideLog' = MapDelete(overrideLog, p)
    /\ UNCHANGED <<sessionId, parsedRounds, emailToName, activeRounds, selectedRoundId,
                   storage>>

\* --- overrides and persisted round state across page reloads
InitOverrides == InitRounds

NextOverrides ==
    /\ \/ \E p \in Movers, e \in OverrideInputs : SetEmailOverride(p, e) /\ UNCHANGED reloaded
       \/ \E p \in Movers : RemoveEmailOverride(p) /\ UNCHANGED reloaded
       \/ /\ \/ \E r \in RoundIds \cup {Null} : SetSelectedRoundId(r) /\ UNCHANGED reloaded
             \/ \E p \in Movers, t \in Times :
                   AddMovedParticipant("r1", p, t) /\ UNCHANGED reloaded
             \/ Reload /\ reloaded' = TRUE
          /\ UNCHANGED overrideLog
    /\ UNCHANGED <<lastCmd, loaded>>
    /\ UNCHANGED <<batchVars, panelVars, trace, waitElapsed, returned, fnVars, asyncVars>>

SpecOverrides == InitOverrides /\ [][NextOverrides]_vars

\* C20: an email override that was set and not removed by removeEmailOverride
\* is present with the stored email in every later state, also after the
\* page was reloaded, and no other override is present.
C20_OverridePersists ==
    /\ DOMAIN emailOverrides = DOMAIN overrideLog
    /\ \A p \in DOMAIN overrideLog : emailOverrides[p] = overrideLog[p]

(* ---------------------------------------------------------------------- *)
(* matchParticipants as a function of its arguments                       *)
(* ---------------------------------------------------------------------- *)
\* participant.email values: none, normalized, upper case, padded, and one
\* that is in no conflict set
MatchEmails == {NoEmail, "alice@example.com", "ALICE@EXAMPLE.COM", " Bob@Example.com",
                "carol@example.com"}
\* conflictEmails (already normalized by the parser)
ConflictSets == SUBSET {"alice@example.com", "bob@example.com", "dave@example.com"}
MatchIds == <<"p1", "p2", "p3">>
\* participant lists of every length up to Len(MatchIds)
MatchLists ==
    UNION {{[i \in 1..n |-> [participantUUID |-> MatchIds[i], email |-> f[i]]] :
               f \in [1..n -> MatchEmails]} : n \in 0..Len(MatchIds)}

\* the orders in which a list of n participants may be delivered
Perms(n) == {f \in [1..n -> 1..n] : \A i, j \in 1..n : f[i] = f[j] => i = j}

\* a caller holds a conflict set and a participant list
InitMatch ==
    /\ InitEngine
    /\ waitingRoom = {}
    /\ InitStore
    /\ InitObs
    /\ InitControlPanel
    /\ InitAux
    /\ matchArgs \in [conflictEmails : ConflictSets, participants : MatchLists]
    /\ matchResult = <<>>
    /\ csv = <<>>
    /\ parseResult = <<>>
    /\ InitAsync

\* matchParticipants(conflictEmails, participants) with the participants
\* delivered in the order perm
MatchParticipants(perm) ==
    LET participants == [i \in DOMAIN perm |-> matchArgs.participants[perm[i]]] IN
    /\ matchResult' = <<[participants |-> participants,
                          result |-> matchParticipants(matchArgs.conflictEmails,
                                                       participants)]>>
    /\ UNCHANGED <<matchArgs, csv, parseResult>>

NextMatch ==
    /\ \E perm \in Perms(Len(matchArgs.participants)) : MatchParticipants(perm)
    /\ UNCHANGED <<batchVars, storeVars, obsVars, panelVars, auxVars, asyncVars>>

SpecMatch == InitMatch /\ [][NextMatch]_vars

\* trimmed and lowercased form of the emails in use
TrimLower ==
    [e \in MatchEmails |->
        CASE e \in {"alice@example.com", "ALICE@EXAMPLE.COM"} -> "alice@example.com"
          [] e = " Bob@Example.com" -> "bob@example.com"
          [] OTHER -> e]

\* C23: matchParticipants equals the reference partition: noEmail is exactly
\* the participants without an email, matched exactly those whose trimmed,
\* lowercased email is in the conflict set, notFound exactly the conflict
\* emails that are the normalized email of no participant; a participant
\* with an email outside the conflict set is in none of the outputs.
C23_ReferencePartition ==
    matchResult # <<>> =>
        LET c == matchArgs.conflictEmails
            ps == matchResult[1].participants
            r == matchResult[1].result
            without == {i \in DOMAIN ps : ps[i].email = NoEmail}
            hit == {i \in DOMAIN ps \ without : TrimLower[ps[i].email] \in c}
            UuidsAt(I) == {ps[i].participantUUID : i \in I}
        IN /\ Range(r.noEmail) = UuidsAt(without)
           /\ Len(r.noEmail) = Cardinality(without)
           /\ Range(r.matched) = UuidsAt(hit)
           /\ Len(r.matched) = Cardinality(hit)
           /\ Range(r.notFound) =
                 {e \in c : \A i \in DOMAIN ps \ without : TrimLower[ps[i].email] # e}
           /\ Len(r.notFound) = Cardinality(Range(r.notFound))
           /\ \A i \in DOMAIN ps \ (without \cup hit) :
                 ps[i].participantUUID \notin Range(r.matched) \cup Range(r.noEmail)

\* one participant matched through normalization, one without email, one
\* with an email outside the conflict set, and one conflict email not found
C23_Witness ==
    /\ matchResult # <<>>
    /\ matchArgs.conflictEmails = {"alice@example.com", "bob@example.com"}
    /\ matchResult[1].participants =
          <<[participantUUID |-> "p3", email |-> "carol@example.com"],
            [participantUUID |-> "p1", email |-> NoEmail],
            [participantUUID |-> "p2", email |-> " Bob@Example.com"]>>
    /\ matchResult[1].result =
          [matched |-> <<"p2">>, notFound |-> <<"alice@example.com">>, noEmail |-> <<"p1">>]

\* the three outputs of a MatchResult as sets
AsSets(r) ==
    [matched |-> Range(r.matched), notFound |-> Range(r.notFound),
     noEmail |-> Range(r.noEmail)]

\* C24: for every permutation of the participant list matchParticipants
\* yields the same sets of matched ids, notFound emails and noEmail ids as
\* for the list in its original order.
C24_OrderInsensitive ==
    matchResult # <<>> =>
        AsSets(matchResult[1].result)
            = AsSets(matchParticipants(matchArgs.conflictEmails, matchArgs.participants))

\* two participants with the same conflict email were delivered in reverse
\* order and both are matched
C24_Witness ==
    /\ matchResult # <<>>
    /\ matchArgs.participants =
          <<[participantUUID |-> "p1", email |-> "alice@example.com"],
            [participantUUID |-> "p2", email |-> "ALICE@EXAMPLE.COM"],
            [participantUUID |-> "p3", email |-> NoEmail]>>
    /\ matchArgs.conflictEmails = {"alice@example.com", "dave@example.com"}
    /\ matchResult[1].result.matched = <<"p2", "p1">>
    /\ matchResult[1].result.noEmail = <<"p3">>

(* ---------------------------------------------------------------------- *)
(* Email associations: manual overrides, import from file or server,      *)
(* and their use when a round is started                                  *)
(* ---------------------------------------------------------------------- *)
\* externally supplied id -> email maps (file content or server response):
\* an entry for a participant of the meeting, an entry without email, an
\* entry for somebody who is not in the meeting, an entry of blanks
ExternalMaps ==
    {("p1" :> "bob@example.com") @@ ("p2" :> "") @@ ("p3" :> "alice@example.com"),
     ("p1" :> "  ")}

\* participants of getMeetingParticipants(): Participant has no email
CurrentParticipants ==
    <<[participantUUID |-> "p1", email |-> NoEmail],
      [participantUUID |-> "p2", email |-> NoEmail]>>

\* Object.entries(associations).forEach(...) of the two import handlers;
\* captured is the emailOverrides of the render the handler was created in
RECURSIVE applyAssociations(_, _, _, _, _)
applyAssociations(overrides, captured, associations, entries, currentUUIDs) ==
    IF entries = <<>> THEN overrides
    ELSE LET uuid == Head(entries)
             email == associations[uuid]
         IN applyAssociations(
                IF email # "" /\ uuid \in currentUUIDs /\ uuid \notin DOMAIN captured
                THEN MapSet(overrides, uuid, normalizeEmail(email))
                ELSE overrides,
                captured, associations, Tail(entries), currentUUIDs)

\* EmailAssociationPanel.handleAssociate: a non-blank input for a participant
HandleAssociate(p, e) ==
    /\ normalizeEmail(e) # ""
    /\ SetEmailOverride(p, e)
    /\ UNCHANGED <<panelVars, restore>>

\* EmailAssociationPanel.handleRemove
HandleRemove(p) ==
    /\ RemoveEmailOverride(p)
    /\ UNCHANGED <<panelVars, restore>>

\* handleRestoreAssociations up to await getMeetingParticipants(): the file
\* was read and parsed
HandleRestoreAssociations(associations) ==
    /\ restore.pc = "none"
    /\ restore' = [pc |-> "restoreFetch", emailOverrides |-> emailOverrides,
                   associations |-> associations]
    /\ UNCHANGED <<storeVars, panelVars, overrideLog>>

\* handleLoadFromServer up to await getMeetingParticipants()
HandleLoadFromServer ==
    /\ restore.pc = "none"
    /\ restore' = [pc |-> "loadFetch", emailOverrides |-> emailOverrides,
                   associations |-> <<>>]
    /\ UNCHANGED <<storeVars, panelVars, overrideLog>>

\* the entries are applied, then setCachedParticipants(currentParticipants)
ApplyAssociations(associations) ==
    /\ emailOverrides' =
          applyAssociations(emailOverrides, restore.emailOverrides, associations,
                            SetToSeq(DOMAIN associations),
                            Range([i \in DOMAIN CurrentParticipants |->
                                      CurrentParticipants[i].participantUUID]))
    /\ overrideLog' = emailOverrides'
    /\ cachedParticipants' = <<CurrentParticipants>>
    /\ restore' = NoRestore
    /\ UNCHANGED <<sessionId, parsedRounds, emailToName, activeRounds, selectedRoundId,
                   storage>>
    /\ UNCHANGED <<ppc, noEmail, participantsToMove, bo, succeeded>>

\* the handler ends in its catch block
RestoreFails ==
    /\ restore' = NoRestore
    /\ UNCHANGED <<storeVars, panelVars, overrideLog>>

\* getMeetingParticipants() returned in one of the import handlers
ParticipantsReturn(ok) ==
    /\ restore.pc \in {"restoreFetch", "loadFetch"}
    /\ IF ~ok THEN RestoreFails
       ELSE IF restore.pc = "restoreFetch" THEN ApplyAssociations(restore.associations)
       ELSE /\ restore' = [restore EXCEPT !.pc = "load"]
            /\ UNCHANGED <<storeVars, panelVars, overrideLog>>

\* loadAssociationsFromServer() returned in handleLoadFromServer
LoadReturns(ok, associations) ==
    /\ restore.pc = "load"
    /\ IF ok THEN ApplyAssociations(associations) ELSE RestoreFails

\* the command just executed, for the association handlers
Did(cmd) == Observe(cmd, IF selectedRoundId = Null THEN "r1" ELSE selectedRoundId)

InitAssociations ==
    /\ InitEngine
    /\ waitingRoom = {}
    /\ InitObs
    /\ InitControlPanel
    /\ InitAux
    /\ InitFn
    /\ InitAsync
    /\ sessionId = "s1"
    /\ parsedRounds = ImportedRounds
    /\ emailToName = <<>>
    /\ activeRounds = <<>>
    /\ selectedRoundId = "r1"
    /\ emailOverrides = <<>>
    /\ storage = saveState(AppState)

NextAssociations ==
    /\ \/ \E list \in ParticipantLists :
             HandleFetchEmails(list) /\ Did("handleFetchEmails")
             /\ UNCHANGED <<restore, overrideLog>>
       \/ HandleStartRound /\ Did("handleStartRound") /\ UNCHANGED <<restore, overrideLog>>
       \/ CancelStartDialog /\ Did("cancel") /\ UNCHANGED <<restore, overrideLog>>
       \/ \E p \in Movers, e \in OverrideInputs : HandleAssociate(p, e) /\ Did("handleAssociate")
       \/ \E p \in Movers : HandleRemove(p) /\ Did("handleRemove")
       \/ \E associations \in ExternalMaps :
             HandleRestoreAssociations(associations) /\ Did("handleRestoreAssociations")
       \/ HandleLoadFromServer /\ Did("handleLoadFromServer")
       \/ \E ok \in BOOLEAN : ParticipantsReturn(ok) /\ Did("getMeetingParticipants")
       \/ \E ok \in BOOLEAN, associations \in ExternalMaps :
             LoadReturns(ok, associations) /\ Did("loadAssociationsFromServer")
    /\ UNCHANGED <<batchVars, trace, waitElapsed, returned, fnVars, emailVars, meetingVars>>

SpecAssociations == InitAssociations /\ [][NextAssociations]_vars

\* C21: when participants are matched for a round start, a participant with
\* an email override is matched iff the override is in the conflict set of
\* the round, whatever email the directory reported.
C21_OverrideDecidesMatch ==
    [][IsStep("handleStartRound", selectedRoundId) =>
          LET conflictEmails == getConflictEmailsForRound(selectedRoundId, parsedRounds)
              matched == IF ppc' = "startDialog" THEN Range(participantsToMove') ELSE {}
              list == cachedParticipants[1]
          IN \A i \in DOMAIN list :
                list[i].participantUUID \in DOMAIN emailOverrides =>
                    (list[i].participantUUID \in matched
                        <=> emailOverrides[list[i].participantUUID] \in conflictEmails)]_vars

\* C22: when an externally supplied id -> email map is applied, every id
\* that has a local override at that moment keeps its local email, for any
\* interleaving of manual override edits with the loading.
C22_LocalOverridesWin ==
    [][(restore.pc # "none" /\ restore'.pc = "none") =>
          \A p \in DOMAIN emailOverrides :
              /\ p \in DOMAIN emailOverrides'
              /\ emailOverrides'[p] = emailOverrides[p]]_vars

(* ---------------------------------------------------------------------- *)
(* CSV parser: parseCSV on the rows and header fields delivered by Papa   *)
(* ---------------------------------------------------------------------- *)
\* String.prototype.toLowerCase / trim / includes on the strings in use
toLowerCase(str) ==
    CASE str = "Email " -> "email "
      [] str = "Bob@Example.com" -> "bob@example.com"
      [] str = " Bob@Example.com" -> " bob@example.com"
      [] str = "YES" -> "yes"
      [] OTHER -> str

trim(str) ==
    CASE str = "Email " -> "Email"
      [] str = "email " -> "email"
      [] str = " Bob@Example.com" -> "Bob@Example.com"
      [] str = " bob@example.com" -> "bob@example.com"
      [] str = " " -> ""
      [] str = " 1" -> "1"
      [] OTHER -> str

Containing ==
    [sub \in {"round", "email", "name"} |->
        CASE sub = "round" -> {"round_id", "round_1", "round_2", "round_email"}
          [] sub = "email" -> {"email", "email ", "round_email"}
          [] sub = "name" -> {"registered_name"}]

includes(str, sub) == str \in Containing[sub]

\* (variant that accepts every email)
isValidEmailAlways(email) == TRUE

\* isValidEmail: /^[^\s@]+@[^\s@]+\.[^\s@]+$/ on the strings in use
isValidEmail(email) ==
    email \in {"alice@example.com", "bob@example.com", "Bob@Example.com"}

\* array.find(pred): the first element that satisfies pred, or none
NoKey == "<undefined>"
RECURSIVE find(_, _)
find(array, sub) ==
    IF array = <<>> THEN NoKey
    ELSE IF includes(toLowerCase(Head(array)), sub) THEN Head(array)
    ELSE find(Tail(array), sub)

\* row[key] of a row object with the keys fields
Cell(fields, row, key) == row[CHOOSE i \in DOMAIN fields : fields[i] = key]

\* (variant without the limit on the number of columns)
detectCSVFormatAnyWidth(headers) ==
    LET normalizedHeaders == [i \in DOMAIN headers |-> trim(toLowerCase(headers[i]))]
        hasRoundId == \E i \in DOMAIN headers : includes(normalizedHeaders[i], "round")
        hasEmail == \E i \in DOMAIN headers : includes(normalizedHeaders[i], "email")
    IN IF hasRoundId /\ hasEmail /\ Len(headers) >= 2
       THEN "row-based"
       ELSE IF hasEmail /\ Len(headers) > 1 THEN "column-based"
       ELSE "unknown"

\* detectCSVFormat(headers)
detectCSVFormat(headers) ==
    LET normalizedHeaders == [i \in DOMAIN headers |-> trim(toLowerCase(headers[i]))]
        hasRoundId == \E i \in DOMAIN headers : includes(normalizedHeaders[i], "round")
        hasEmail == \E i \in DOMAIN headers :
                        \/ normalizedHeaders[i] = "email"
                        \/ includes(normalizedHeaders[i], "email")
    IN IF hasRoundId /\ hasEmail /\ Len(headers) >= 2 /\ Len(headers) <= 3
       THEN "row-based"
       ELSE IF hasEmail /\ Len(headers) > 1 THEN "column-based"
       ELSE "unknown"

\* rounds, emailToName, errors and warnings before the rows are read
NoParse == [rounds |-> <<>>, emailToName |-> <<>>, errors |-> <<>>, warnings |-> <<>>]

\* an entry of errors / warnings: the row number and the message
Message(rowNum, text) == [row |-> rowNum, text |-> text]

\* rounds.get(roundId).add(email), with rounds.set(roundId, new Set()) first
\* when the round is new
AddToRound(rounds, roundId, email) ==
    MapSet(rounds, roundId,
           (IF roundId \in DOMAIN rounds THEN rounds[roundId] ELSE {}) \cup {email})

\* body of the for loop of parseRowBased for rows[i]
rowBasedStep(acc, fields, row, i) ==
    LET rowNum == i + 2
        roundIdKey == find(fields, "round")
        emailKey == find(fields, "email")
        nameKey == find(fields, "name")
    IN IF roundIdKey = NoKey \/ emailKey = NoKey
       THEN [acc EXCEPT !.errors =
                Append(@, Message(rowNum, "Missing round_id or email column"))]
       ELSE
       LET roundId == trim(Cell(fields, row, roundIdKey))
           email == trim(Cell(fields, row, emailKey))
           registeredName == IF nameKey # NoKey THEN trim(Cell(fields, row, nameKey)) ELSE ""
           normalizedEmail == normalizeEmail(email)
       IN IF roundId = ""
          THEN [acc EXCEPT !.warnings = Append(@, Message(rowNum, "Empty round_id, skipping"))]
          ELSE IF email = ""
          THEN [acc EXCEPT !.warnings = Append(@, Message(rowNum, "Empty email, skipping"))]
          ELSE IF ~isValidEmail(email)
          THEN [acc EXCEPT !.warnings =
                   Append(@, Message(rowNum, "Invalid email format, skipping"))]
          ELSE [acc EXCEPT
                   !.emailToName =
                       IF registeredName # "" /\ normalizedEmail \notin DOMAIN @
                       THEN MapSet(@, normalizedEmail, registeredName) ELSE @,
                   !.rounds = AddToRound(@, roundId, normalizedEmail)]

\* parseRowBased(rows): the for loop from row i on
RECURSIVE parseRowBased(_, _, _, _)
parseRowBased(acc, fields, rows, i) ==
    IF i >= Len(rows) THEN acc
    ELSE parseRowBased(rowBasedStep(acc, fields, rows[i + 1], i), fields, rows, i + 1)

\* value === '1' || value.toLowerCase() is 'true', 'yes' or 'x'
isConflict(value) == value = "1" \/ toLowerCase(value) \in {"true", "yes", "x"}

\* for (const roundCol of roundColumns) if (isConflict) rounds.get(roundCol).add(email)
RECURSIVE markConflicts(_, _, _, _, _)
markConflicts(rounds, fields, row, roundColumns, email) ==
    IF roundColumns = <<>> THEN rounds
    ELSE markConflicts(
             IF isConflict(trim(Cell(fields, row, Head(roundColumns))))
             THEN AddToRound(rounds, Head(roundColumns), email) ELSE rounds,
             fields, row, Tail(roundColumns), email)

\* body of the for loop of parseColumnBased for rows[i]
columnBasedStep(acc, fields, row, i, emailKey, nameKey, roundColumns) ==
    LET rowNum == i + 2
        email == trim(Cell(fields, row, emailKey))
        registeredName == IF nameKey # NoKey THEN trim(Cell(fields, row, nameKey)) ELSE ""
        normalizedEmail == normalizeEmail(email)
    IN IF email = ""
       THEN [acc EXCEPT !.warnings = Append(@, Message(rowNum, "Empty email, skipping"))]
       ELSE IF ~isValidEmail(email)
       THEN [acc EXCEPT !.warnings =
                Append(@, Message(rowNum, "Invalid email format, skipping"))]
       ELSE [acc EXCEPT
                !.emailToName = IF registeredName # ""
                                THEN MapSet(@, normalizedEmail, registeredName) ELSE @,
                !.rounds = markConflicts(@, fields, row, roundColumns, normalizedEmail)]

RECURSIVE columnBasedRows(_, _, _, _, _, _, _)
columnBasedRows(acc, fields, rows, i, emailKey, nameKey, roundColumns) ==
    IF i >= Len(rows) THEN acc
    ELSE columnBasedRows(
             columnBasedStep(acc, fields, rows[i + 1], i, emailKey, nameKey, roundColumns),
             fields, rows, i + 1, emailKey, nameKey, roundColumns)

\* headers.filter(h => h !== emailKey && h !== nameKey)
RECURSIVE roundColumnsOf(_, _, _)
roundColumnsOf(headers, emailKey, nameKey) ==
    IF headers = <<>> THEN <<>>
    ELSE (IF Head(headers) # emailKey /\ Head(headers) # nameKey
          THEN <<Head(headers)>> ELSE <<>>)
         \o roundColumnsOf(Tail(headers), emailKey, nameKey)

\* for (const roundCol of roundColumns) rounds.set(roundCol, new Set())
initialRounds(roundColumns) == [roundCol \in Range(roundColumns) |-> {}]

\* parseColumnBased(rows, headers)
parseColumnBased(rows, headers) ==
    LET emailKey == find(headers, "email")
        nameKey == find(headers, "name")
        roundColumns == roundColumnsOf(headers, emailKey, nameKey)
    IN IF emailKey = NoKey
       THEN [NoParse EXCEPT !.errors = <<Message(0, "Could not find email column")>>]
       ELSE IF roundColumns = <<>>
       THEN [NoParse EXCEPT !.errors = <<Message(0, "No round columns found")>>]
       ELSE columnBasedRows([NoParse EXCEPT !.rounds = initialRounds(roundColumns)],
                            headers, rows, 0, emailKey, nameKey, roundColumns)

\* CSVParseResult; data is <<>> when the result has no data
ParseResult(success, data, errors, warnings, totalRows, roundsFound, uniqueEmails) ==
    [success |-> success, data |-> data, errors |-> errors, warnings |-> warnings,
     stats |-> [totalRows |-> totalRows, roundsFound |-> roundsFound,
                uniqueEmails |-> uniqueEmails]]

\* the complete callback of Papa.parse inside parseCSV (papa.errors empty)
parseCSV(papa) ==
    IF Len(papa.data) = 0
    THEN ParseResult(FALSE, <<>>,
                     <<Message(0, "CSV file is empty or has no valid data")>>, <<>>, 0, 0, 0)
    ELSE
    LET headers == papa.fields
        format == detectCSVFormat(headers)
    IN IF format = "unknown"
       THEN ParseResult(FALSE, <<>>, <<Message(0, "Could not determine CSV format")>>, <<>>,
                        Len(papa.data), 0, 0)
       ELSE
       LET result == IF format = "row-based"
                     THEN parseRowBased(NoParse, headers, papa.data, 0)
                     ELSE parseColumnBased(papa.data, headers)
           uniqueEmails == UNION {result.rounds[r] : r \in DOMAIN result.rounds}
           roundsFound == Cardinality(DOMAIN result.rounds)
       IN IF roundsFound = 0
          THEN ParseResult(FALSE, <<>>, <<Message(0, "No valid rounds found in CSV")>>,
                           result.warnings, Len(papa.data), roundsFound,
                           Cardinality(uniqueEmails))
          ELSE ParseResult(TRUE,
                           <<[format |-> format, rounds |-> result.rounds,
                              emailToName |-> result.emailToName]>>,
                           result.errors, result.warnings, Len(papa.data), roundsFound,
                           Cardinality(uniqueEmails))

\* header names in use
HeaderWords == {"email", "Email ", "round_id", "round_email", "registered_name", "s1"}

\* every header row of up to four different names out of HeaderWords
HeaderRows ==
    UNION {{h \in [1..n -> HeaderWords] : \A i, j \in 1..n : h[i] = h[j] => i = j} :
              n \in 1..4}

\* one data row for a header row: an email, a round id or a mark per column
DefaultRow(fields) ==
    [i \in DOMAIN fields |->
        CASE fields[i] \in {"email", "Email ", "round_email"} -> "alice@example.com"
          [] fields[i] = "round_id" -> " 1"
          [] fields[i] = "registered_name" -> "Alice"
          [] OTHER -> "x"]

\* cells of a round id column, of an email column, of a round column
RoundCells == {"1", "2", " "}
EmailCells == {"alice@example.com", " Bob@Example.com", "bob", ""}
ColumnEmailCells == {"alice@example.com", "bob@example.com", "bob"}
MarkCells == {"1", "0", "yes", "x"}
LastMarkCells == {"0", "x"}

\* all sequences of at most n rows whose i-th cell is out of cells[i]
RowsUpTo(cells, n) ==
    LET Rows == {row \in [DOMAIN cells -> UNION Range(cells)] :
                    \A i \in DOMAIN cells : row[i] \in cells[i]}
    IN UNION {[1..k -> Rows] : k \in 0..n}

\* what Papa.parse hands to the complete callback: meta.fields and data
PapaResults ==
    {[fields |-> h, data |-> d] : h \in HeaderRows, d \in {<<>>}}
    \cup {[fields |-> h, data |-> <<DefaultRow(h)>>] : h \in HeaderRows}
    \cup {[fields |-> <<"round_id", "email">>, data |-> d] :
              d \in RowsUpTo(<<RoundCells, EmailCells>>, MaxRowBasedRows)}
    \cup {[fields |-> h, data |-> d] :
              h \in {<<"email", "round_1", "round_2">>, <<"email", "s1", "s2">>},
              d \in RowsUpTo(<<ColumnEmailCells, MarkCells, LastMarkCells>>, MaxColumnRows)}

InitCsv ==
    /\ InitEngine
    /\ waitingRoom = {}
    /\ InitStore
    /\ InitObs
    /\ InitControlPanel
    /\ InitAux
    /\ InitAsync
    /\ matchArgs = <<>>
    /\ matchResult = <<>>
    /\ csv \in PapaResults
    /\ parseResult = <<>>

\* parseCSV(csvContent) resolves
ParseCSV ==
    /\ parseResult = <<>>
    /\ parseResult' = <<parseCSV(csv)>>
    /\ UNCHANGED <<csv, matchArgs, matchResult>>

NextCsv ==
    /\ ParseCSV
    /\ UNCHANGED <<batchVars, storeVars, obsVars, panelVars, auxVars, asyncVars>>

SpecCsv == InitCsv /\ [][NextCsv]_vars

\* C25: the column-based CSV with header email,round_1,round_2 and the rows
\* (alice@example.com,1,0) and (bob@example.com,yes,x) parses to
\* round_1 = {alice@example.com, bob@example.com}, round_2 = {bob@example.com}.
C25_ColumnBasedExample ==
    (/\ parseResult # <<>>
     /\ csv = [fields |-> <<"email", "round_1", "round_2">>,
               data |-> <<<<"alice@example.com", "1", "0">>,
                          <<"bob@example.com", "yes", "x">>>>])
    => /\ parseResult[1].success
       /\ parseResult[1].data # <<>>
       /\ parseResult[1].data[1].rounds =
             ("round_1" :> {"alice@example.com", "bob@example.com"})
                 @@ ("round_2" :> {"bob@example.com"})

\* header names that contain 'round' / 'email', whatever their case
RoundHeaders == {"round_id", "round_1", "round_2", "round_email"}
EmailHeaders == {"email", "Email ", "round_email"}

\* the format a header row stands for
RefFormat(fields) ==
    IF /\ Range(fields) \cap RoundHeaders # {}
       /\ Range(fields) \cap EmailHeaders # {}
       /\ Len(fields) \in {2, 3}
    THEN "row-based"
    ELSE IF Range(fields) \cap EmailHeaders # {} /\ Len(fields) > 1
    THEN "column-based"
    ELSE "unknown"

RefTrim(cell) ==
    CASE cell = " " -> ""
      [] cell = " 1" -> "1"
      [] cell = " Bob@Example.com" -> "Bob@Example.com"
      [] OTHER -> cell
RefEmail(cell) == IF RefTrim(cell) = "Bob@Example.com" THEN "bob@example.com" ELSE RefTrim(cell)
\* trimmed cells that have the form local@domain.tld
RefValid == {"alice@example.com", "bob@example.com", "Bob@Example.com"}

\* index of the first header out of a set of header names
FirstOf(fields, names) ==
    CHOOSE i \in DOMAIN fields :
        fields[i] \in names /\ \A j \in 1..(i - 1) : fields[j] \notin names

HasRoundColumn(fields) ==
    \/ RefFormat(fields) = "row-based"
    \/ \E i \in DOMAIN fields :
          i # FirstOf(fields, EmailHeaders) /\ fields[i] # "registered_name"

\* C28: parsing reports success=false when there is no data row, when the
\* format is undetected and when every data row was skipped so that no
\* conflict remains, for row-based and column-based input alike; in every
\* other case the parse succeeds whatever warnings there are.
C28_FailureCases ==
    parseResult # <<>> =>
        LET res == parseResult[1]
            allSkipped == Len(res.warnings) = Len(csv.data)
            mustFail == \/ Len(csv.data) = 0
                        \/ RefFormat(csv.fields) = "unknown"
                        \/ allSkipped
        IN /\ mustFail => ~res.success
           /\ (~mustFail /\ HasRoundColumn(csv.fields)) => res.success

(* ---------------------------------------------------------------------- *)
(* Email collection: the onParticipantEmail handler and                    *)
(* getParticipantEmails of the Zoom SDK wrapper.  Time is the time of the  *)
(* last timer that fired; a participant's response may arrive at any       *)
(* moment between two timers.                                              *)
(* ---------------------------------------------------------------------- *)

\* default timeoutMs of getParticipantEmails and the period of its poll
EMAIL_TIMEOUT_MS == 5000
EMAIL_POLL_MS == 200

\* how long zoomSdk.getMeetingParticipantsEmail takes to resolve
SdkLatencies == {0, 100, 300}

\* the email a participant consents to share
ParticipantEmails == ("p1" :> "alice@example.com") @@ ("p2" :> "bob@example.com")

\* what getMeetingParticipants answers to getParticipantEmails
ParticipantsResults ==
    {[success |-> FALSE, participants |-> <<>>],
     [success |-> TRUE, participants |-> <<>>],
     [success |-> TRUE, participants |-> CurrentParticipants]}

\* a result of getParticipantEmails; an absent field is <<>>
EmailsReturn(success, emailMap, timedOut, missingUUIDs, error) ==
    [success |-> success, emailMap |-> emailMap, timedOut |-> timedOut,
     missingUUIDs |-> missingUUIDs, error |-> error]

\* step 5 of getParticipantEmails: the emails of these participants
resultMap(uuids) ==
    [u \in {x \in Range(uuids) : /\ x \in DOMAIN emailByUUID
                                 /\ emailByUUID[x] # NoEmail} |-> emailByUUID[u]]

\* the value returned after the race, with the pending set as the poll left it
raceResult(uuids, pending, timedOut) ==
    EmailsReturn(DOMAIN resultMap(uuids) # {} \/ Len(uuids) = 0,
                 <<resultMap(uuids)>>,
                 <<timedOut>>,
                 <<SelectSeq(uuids, LAMBDA u : u \in pending)>>,
                 IF timedOut /\ pending # {} THEN <<"Timed out waiting">> ELSE <<>>)

\* the handler subscribed by configureZoomSDK
OnParticipantEmail(data) ==
    /\ statusByUUID' = statusByUUID \cup {data.participantUUID}
    /\ emailByUUID' = IF data.participantEmail # NoEmail
                      THEN MapSet(emailByUUID, data.participantUUID, data.participantEmail)
                      ELSE emailByUUID
    /\ UNCHANGED <<collect, emailsResult>>

\* getParticipantEmails is called and runs up to the consent request
GetParticipantEmails(participantsResult, latency) ==
    /\ collect.pc = "none"
    /\ emailsResult = <<>>
    /\ LET uuids == SelectSeq([i \in DOMAIN participantsResult.participants |->
                                  participantsResult.participants[i].participantUUID],
                              LAMBDA u : u # "")
       IN IF ~participantsResult.success
          THEN /\ emailsResult' = <<EmailsReturn(FALSE, <<>>, <<>>, <<>>,
                                                 <<"Failed to get participant list">>)>>
               /\ UNCHANGED collect
          ELSE IF Len(uuids) = 0
          THEN /\ emailsResult' = <<EmailsReturn(TRUE, <<<<>>>>, <<>>, <<>>, <<>>)>>
               /\ UNCHANGED collect
          ELSE /\ collect' = [pc |-> "trigger", uuids |-> uuids, pending |-> Range(uuids),
                              done |-> FALSE, now |-> 0, nextTick |-> EMAIL_POLL_MS,
                              triggerAt |-> latency, timeoutAt |-> 0,
                              lateProgress |-> FALSE]
               /\ UNCHANGED emailsResult
    /\ UNCHANGED <<statusByUUID, emailByUUID>>

\* the interval set by getParticipantEmails is active: it is cleared only
\* by its own callback, when pending is empty
intervalActive(c) == c.pc # "none" /\ ~c.done

\* the setInterval callback; when it resolves the done promise during the
\* race, getParticipantEmails returns. After a return by timeout or by
\* rejection the callback still runs and calls onProgress
IntervalTick ==
    /\ intervalActive(collect)
    /\ collect.pc = "trigger" => collect.nextTick <= collect.triggerAt
    /\ collect.pc = "race" => collect.nextTick <= collect.timeoutAt
    /\ LET pending == collect.pending \ statusByUUID
       IN IF collect.pc = "returned"
          THEN /\ collect' = [collect EXCEPT !.pending = pending,
                                             !.done = (pending = {}),
                                             !.lateProgress = TRUE]
               /\ UNCHANGED emailsResult
          ELSE IF pending = {} /\ collect.pc = "race"
          THEN /\ emailsResult' = <<raceResult(collect.uuids, pending, FALSE)>>
               /\ collect' = [collect EXCEPT !.pc = "returned", !.pending = pending,
                                             !.done = TRUE, !.now = collect.nextTick]
          ELSE /\ collect' = [collect EXCEPT !.pending = pending,
                                             !.done = (pending = {}),
                                             !.now = collect.nextTick,
                                             !.nextTick = collect.nextTick + EMAIL_POLL_MS]
               /\ UNCHANGED emailsResult
    /\ UNCHANGED <<statusByUUID, emailByUUID>>

\* zoomSdk.getMeetingParticipantsEmail settles: the timeout is armed and the
\* race begins, or the rejection reaches the outer catch
TriggerReturns(ok) ==
    /\ collect.pc = "trigger"
    /\ collect.done \/ collect.triggerAt <= collect.nextTick
    /\ IF ~ok
       THEN /\ emailsResult' = <<EmailsReturn(FALSE, <<<<>>>>, <<>>, <<>>,
                                              <<"Failed to get participant emails">>)>>
            /\ collect' = [collect EXCEPT !.pc = "returned", !.now = collect.triggerAt]
       ELSE IF collect.done
       THEN /\ emailsResult' = <<raceResult(collect.uuids, collect.pending, FALSE)>>
            /\ collect' = [collect EXCEPT !.pc = "returned", !.now = collect.triggerAt]
       ELSE /\ collect' = [collect EXCEPT !.pc = "race",
                                          !.now = collect.triggerAt,
                                          !.timeoutAt = collect.triggerAt + EMAIL_TIMEOUT_MS]
            /\ UNCHANGED emailsResult
    /\ UNCHANGED <<statusByUUID, emailByUUID>>

\* the setTimeout callback rejects the race
TimeoutFires ==
    /\ collect.pc = "race"
    /\ collect.timeoutAt <= collect.nextTick
    /\ emailsResult' = <<raceResult(collect.uuids, collect.pending, TRUE)>>
    /\ collect' = [collect EXCEPT !.pc = "returned", !.now = collect.timeoutAt]
    /\ UNCHANGED <<statusByUUID, emailByUUID>>

InitEmails ==
    /\ InitEngine
    /\ waitingRoom = {}
    /\ InitStore
    /\ InitObs
    /\ InitControlPanel
    /\ InitAux
    /\ InitFn
    /\ InitAsync

NextEmails ==
    /\ \/ \E u \in DOMAIN ParticipantEmails :
             \E e \in {ParticipantEmails[u], NoEmail} :
             OnParticipantEmail([participantUUID |-> u, participantEmail |-> e])
       \/ \E participantsResult \in ParticipantsResults, latency \in SdkLatencies :
             GetParticipantEmails(participantsResult, latency)
       \/ IntervalTick
       \/ \E ok \in BOOLEAN : TriggerReturns(ok)
       \/ TimeoutFires
    /\ UNCHANGED <<batchVars, storeVars, obsVars, panelVars, auxVars, fnVars, restore,
                   meetingVars>>

SpecEmails == InitEmails /\ [][NextEmails]_vars

\* C29: when getParticipantEmails returns from waiting for the responses,
\* then, if some participant has not responded, timedOut is true, emailMap
\* holds the emails received so far and missingUUIDs lists exactly the
\* participants that have not responded; and if every participant has
\* responded, timedOut is false and missingUUIDs is empty.
C29_TimeoutReport ==
    [][(emailsResult = <<>> /\ emailsResult' # <<>> /\ emailsResult'[1].timedOut # <<>>) =>
        LET res == emailsResult'[1]
            uuids == collect.uuids
            notResponded == Range(uuids) \ statusByUUID
            hasEmail == {x \in Range(uuids) \cap DOMAIN emailByUUID : emailByUUID[x] # NoEmail}
            received == [u \in hasEmail |-> emailByUUID[u]]
        IN IF notResponded # {}
           THEN /\ res.timedOut = <<TRUE>>
                /\ res.emailMap = <<received>>
                /\ Range(res.missingUUIDs[1]) = notResponded
           ELSE /\ res.timedOut = <<FALSE>>
                /\ res.missingUUIDs = <<<<>>>>]_vars

\* C30: while a confirmed Start Round is assigning participants to the
\* round's breakout room, the participant being assigned is not yet in the
\* round's moved-set (a repeated start assigns only newly matched
\* participants).
C30_StartTwiceOnlyNew ==
    (ppc = "sending" /\ bo.pc = "assign") =>
        bo.participants[bo.k] \notin getMovedParticipants(activeRounds, selectedRoundId)

(* ---------------------------------------------------------------------- *)
(* The control panel together with the breakout rooms of the meeting.      *)
(* closeBreakoutRooms() takes no argument and closes every room;           *)
(* createBreakoutRooms replaces the rooms; an assignment takes effect when *)
(* the rooms are opened (automaticallyMoveParticipantsIntoRooms).          *)
(* ---------------------------------------------------------------------- *)

\* the participants that are in a breakout room
InBreakout == IF rooms.open THEN rooms.assigned ELSE {}

\* Date.now() when nothing else happened since the last recorded timestamp
Clock == CHOOSE t \in Now : \A u \in Now : t <= u

NextMeeting ==
    /\ \/ \E r \in RoundIds : SelectRound(r) /\ UNCHANGED rooms
       \/ \E list \in ParticipantLists : HandleFetchEmails(list) /\ UNCHANGED rooms
       \/ HandleStartRound /\ UNCHANGED rooms
       \/ CancelStartDialog /\ UNCHANGED rooms
       \/ ConfirmStartRound(Clock) /\ UNCHANGED rooms
       \/ \E selected \in SUBSET Movers :
             HandleMoveFallbackParticipants(selected) /\ UNCHANGED rooms
       \/ \E open \in BOOLEAN :
             (open => rooms.open) /\ ListReturns(open) /\ UNCHANGED rooms
       \/ \E ok \in BOOLEAN :
             CloseReturns(ok) /\ rooms' = IF ok THEN [rooms EXCEPT !.open = FALSE] ELSE rooms
       \/ WaitForBreakoutRoomsToClose /\ UNCHANGED rooms
       \/ \E outcome \in {"ok", "failed"} :
             /\ CreateReturns(outcome, Clock)
             /\ rooms' = IF createSucceeded(outcome) THEN NoRooms ELSE rooms
       \/ \E ok \in BOOLEAN : ConfigureReturns(ok) /\ UNCHANGED rooms
       \/ \E ok \in BOOLEAN :
             /\ AssignReturns(ok)
             /\ rooms' = IF ok THEN [rooms EXCEPT !.assigned = @ \cup {bo.participants[bo.k]}]
                         ELSE rooms
       \/ \E ok \in BOOLEAN :
             /\ OpenReturns(ok, Clock)
             /\ rooms' = IF ok THEN [rooms EXCEPT !.open = TRUE] ELSE rooms
       \/ HandleEndRound /\ UNCHANGED rooms
       \/ CancelEndDialog /\ UNCHANGED rooms
       \/ ConfirmEndRound /\ UNCHANGED rooms
       \/ \E closeOk \in BOOLEAN :
             /\ ReturnResolves(closeOk, Clock)
             /\ rooms' = IF closeOk THEN [rooms EXCEPT !.open = FALSE] ELSE rooms
       \/ Finish /\ UNCHANGED rooms
    /\ UNCHANGED <<batchVars, obsVars, auxVars, fnVars, restore, emailVars>>

SpecMeeting == InitPanel /\ [][NextMeeting]_vars

\* C31: when a confirmed End Round has returned the participants, every
\* participant whose placement it changed (in a breakout room before, in
\* the main meeting after) is in the moved-set of the round that was ended.
C31_EndReturnsOnlyMoved ==
    [][(ppc = "returning" /\ ppc' = "endNotify") =>
          (InBreakout \ InBreakout') \subseteq
              getMovedParticipants(activeRounds, selectedRoundId)]_vars

\* C32: a finished move/admit batch holds exactly one result per input
\* item, at the item's index and for the item's participant, and each
\* result is decided by the item's own calls alone: "not in waiting room"
\* for an admit target absent from the snapshot, success iff the item's
\* last call succeeded, failure with the collaborator's error otherwise,
\* whatever happened to the other items.
C32_ItemsIndependent ==
    bpc = "done" =>
        /\ Len(results) = Len(items)
        /\ \A i \in DOMAIN items :
            /\ results[i].participantUUID = items[i]
            /\ IF kind = "admit" /\ items[i] \notin waitingRoomUUIDs
               THEN /\ ~results[i].success
                    /\ results[i].error = "not in waiting room"
               ELSE IF op[i].calls = op[i].fails + 1
               THEN results[i].success /\ results[i].error = "none"
               ELSE /\ op[i].fails = MAX_RETRIES + 1
                    /\ ~results[i].success
                    /\ results[i].error = "collaborator"

\* the admit batch for targets 1 and 2 is finished; every admit call of
\* target 2 failed, target 1 is reported admitted and target 2 failed
C32_Witness ==
    /\ bpc = "done"
    /\ kind = "admit"
    /\ items = <<1, 2>>
    /\ op[2].fails = MAX_RETRIES + 1
    /\ results[1].success
    /\ ~results[2].success
    /\ results[2].error = "collaborator"

\* returns of the assign calls made for participant p with outcome o
AssignRets(p, o) ==
    {j \in DOMAIN trace : /\ j > 1
                          /\ trace[j] = Event("ret", "assign", o)
                          /\ trace[j - 1] = Event("call", "assign", p)}

\* C33: at most 4 assign calls are made per participant; a participant
\* whose assign call failed k <= 3 times and then succeeded is reported
\* success=true with retryCount=k, and one whose assign call failed 4 times
\* is reported success=false with retryCount=3.
C33_AssignRetries ==
    /\ \A p \in Range(participantsToMove) :
          Cardinality(Pos("call", "assign") \cap
                      {j \in DOMAIN trace : trace[j].arg = p}) <= 4
    /\ ~CreateFailed =>
          \A i \in DOMAIN bo.results :
             LET res == bo.results[i]
                 k == Cardinality(AssignRets(res.participantUUID, "failed"))
             IN IF AssignRets(res.participantUUID, "ok") # {}
                THEN k <= 3 /\ res.success /\ res.retryCount = k
                ELSE k = 4 /\ ~res.success /\ res.retryCount = 3

\* the send has returned: the first participant was assigned at the fourth
\* call, every one of the four calls for the second participant failed
C33_Witness ==
    /\ ppc = "startNotify"
    /\ Len(bo.results) = 2
    /\ bo.results[1].success /\ bo.results[1].retryCount = 3
    /\ ~bo.results[2].success /\ bo.results[2].retryCount = 3
    /\ Cardinality(AssignRets("p2", "failed")) = 4

\* C34: when the page is reloaded while a start batch is in progress, every
\* participant whose assignment the batch has already got confirmed
\* (a success=true result) is in the moved-set of the round that the
\* reloaded store holds.
C34_RestartKeepsConfirmed ==
    [][(ppc = "sending" /\ ppc' = "idle") =>
          \A i \in DOMAIN bo.results :
             bo.results[i].success =>
                /\ selectedRoundId \in DOMAIN activeRounds'
                /\ bo.results[i].participantUUID
                      \in activeRounds'[selectedRoundId].movedParticipants]_vars

\* C35: when a start batch or a fallback-move batch of a round has
\* completed and its outcome was recorded, the round's moved counter is
\* the number of identifiers in the round's moved-set.
C35_CounterIsSetSize ==
    (ppc \in {"startNotify", "fallbackNotify"} /\ selectedRoundId \in DOMAIN activeRounds) =>
        activeRounds[selectedRoundId].movedCount
            = Cardinality(activeRounds[selectedRoundId].movedParticipants)

\* C36: in an admit batch whose waiting-room fetch failed no admit call is
\* issued, every processed target is reported failed with the "not in
\* waiting room" reason and retryCount 0, and no result carries the error
\* of the fetch.
C36_FailedFetchIsEmptySnapshot ==
    (kind = "admit" /\ bpc \in {"run", "done"} /\ ~waitingRoomResult.success) =>
        /\ \A i \in DOMAIN op :
              /\ op[i].calls = 0
              /\ op[i].st # "pending" =>
                    op[i].res = [participantUUID |-> items[i], success |-> FALSE,
                                 error |-> "not in waiting room", retryCount |-> 0]
        /\ bpc = "done" =>
              /\ Len(results) = Len(items)
              /\ \A i \in DOMAIN results :
                    /\ ~results[i].success
                    /\ results[i].retryCount = 0
                    /\ results[i].error = "not in waiting room"
                    /\ results[i].error # waitingRoomResult.error

\* a finished admit batch whose fetch failed although its targets were all
\* in the waiting room, where they still are
C36_Witness ==
    /\ kind = "admit"
    /\ bpc = "done"
    /\ ~waitingRoomResult.success
    /\ Len(items) = NumParticipants
    /\ Range(items) \subseteq waitingRoom
    /\ Len(results) = Len(items)

\* C37: when the open call of a send failed after the assignments, no
\* participant of the batch is reported as moved: no result of the batch
\* is success=true and the round's moved-set, empty before the batch,
\* stays empty.
C37_MovedOnlyIfOpened ==
    (ppc = "startNotify" /\ \E i \in Pos("ret", "open") : trace[i].arg = "failed") =>
        /\ \A i \in DOMAIN bo.results : ~bo.results[i].success
        /\ getMovedParticipants(activeRounds, selectedRoundId) = {}

\* C38: no participant id is both a key of the email map returned by
\* getParticipantEmails and an element of the returned missingUUIDs.
C38_MapAndMissingDisjoint ==
    (emailsResult # <<>> /\ emailsResult[1].missingUUIDs # <<>>) =>
        DOMAIN emailsResult[1].emailMap[1] \cap Range(emailsResult[1].missingUUIDs[1]) = {}

\* C39: once getParticipantEmails has returned, its poll timer is not
\* active and no progress callback has been invoked since the return.
C39_PollingStopsOnReturn ==
    emailsResult # <<>> => ~intervalActive(collect) /\ ~collect.lateProgress

(* ---------------------------------------------------------------------- *)
(* resetState of the store                                                 *)
(* ---------------------------------------------------------------------- *)

\* resetState: set({...createInitialState(), sessionId: generateUUID()}),
\* then localStorage.removeItem(STORAGE_KEY); createInitialState reads the
\* document that is still stored
ResetState(fresh) ==
    LET st == createInitialState(storage, fresh) IN
    /\ sessionId' = fresh
    /\ parsedRounds' = st.parsedRounds
    /\ emailToName' = st.emailToName
    /\ activeRounds' = st.activeRounds
    /\ selectedRoundId' = st.selectedRoundId
    /\ emailOverrides' = <<>>
    /\ cachedParticipants' = <<>>
    /\ storage' = <<>>
    /\ UNCHANGED <<ppc, noEmail, participantsToMove, bo, succeeded, overrideLog>>

InitReset == InitRounds

NextReset ==
    /\ \/ /\ \/ \E m \in RoundMaps : SetParsedRounds(m) /\ Did("setParsedRounds")
             \/ \E r \in RoundIds \cup {Null} :
                   SetSelectedRoundId(r) /\ Did("setSelectedRoundId")
             \/ \E r \in RoundIds : StartRound(r, 1) /\ Did("startRound")
             \/ \E p \in Movers : AddMovedParticipant("r1", p, 1) /\ Did("addMovedParticipant")
          /\ UNCHANGED <<panelVars, overrideLog>>
       \/ \E p \in Movers :
             SetEmailOverride(p, "alice@example.com") /\ Did("setEmailOverride")
                                                      /\ UNCHANGED panelVars
       \/ \E fresh \in SessionIds \ {sessionId} : ResetState(fresh) /\ Did("resetState")
    /\ UNCHANGED <<batchVars, trace, waitElapsed, returned, fnVars, asyncVars>>

SpecReset == InitReset /\ [][NextReset]_vars

\* C40: after resetState the store has no parsed rounds, no round states,
\* no selected round and no email overrides, its session id is a new one
\* and the persisted document is removed.
C40_ResetIsEmpty ==
    [][lastCmd'[1] = "resetState" =>
          /\ parsedRounds' = <<>>
          /\ activeRounds' = <<>>
          /\ selectedRoundId' = Null
          /\ emailOverrides' = <<>>
          /\ sessionId' # sessionId
          /\ storage' = <<>>]_vars

====
